---- MODULE Spec2Model ----
(***************************************************************************)
(* Confidence extraction of the parallax Rust SDK                          *)
(* (packages/sdk-rust/src/confidence.rs), and the start, lease renewal and *)
(* shutdown of its agents (grpc_agent.rs, parallax_agent.rs).              *)
(*                                                                         *)
(* Numbers.  An f64 is modelled as an exact fixed-point number: the        *)
(* integer n stands for n / Scale.  The inputs have at most three decimals *)
(* in [0,1] and at most one decimal in (1,100].  Sums and products are     *)
(* computed exactly; the code's f64 sums of keyword deltas can differ from  *)
(* the exact sum in the last binary place, depending on the order in which *)
(* a HashMap is iterated.  NaN and the infinities, which                   *)
(* str::parse::<f64> can produce, are carried by the cls field of an F64   *)
(* record.                                                                 *)
(*                                                                         *)
(* Text.  A Rust string is a sequence of characters, each character a      *)
(* one-character TLA+ string.  The regular expressions of the code are     *)
(* operators over such sequences with the regex crate's leftmost-first,    *)
(* greedy semantics.                                                       *)
(***************************************************************************)
EXTENDS Integers, Sequences, FiniteSets, TLC

Scale == 100 * 100

Max2(a, b) == IF a >= b THEN a ELSE b
Min2(a, b) == IF a <= b THEN a ELSE b

RECURSIVE Pow10(_)
Pow10(n) == IF n <= 0 THEN 1 ELSE 10 * Pow10(n - 1)

----------------------------------------------------------------------------
(* Characters *)

AsciiDigits == {"0", "1", "2", "3", "4", "5", "6", "7", "8", "9"}

DigitVal(c) ==
  CASE c = "0" -> 0 [] c = "1" -> 1 [] c = "2" -> 2 [] c = "3" -> 3
    [] c = "4" -> 4 [] c = "5" -> 5 [] c = "6" -> 6 [] c = "7" -> 7
    [] c = "8" -> 8 [] c = "9" -> 9

DigitChar(d) ==
  CASE d = 0 -> "0" [] d = 1 -> "1" [] d = 2 -> "2" [] d = 3 -> "3"
    [] d = 4 -> "4" [] d = 5 -> "5" [] d = 6 -> "6" [] d = 7 -> "7"
    [] d = 8 -> "8" [] d = 9 -> "9"

\* U+0663 ARABIC-INDIC DIGIT THREE: a decimal digit (general category Nd)
\* that is not an ASCII digit.  One atom stands for the character.
ArabicIndicThree == "U+0663"

\* regex \d is Unicode-aware in the regex crate: any character of category Nd
ReDigit(c) == c \in AsciiDigits \/ c = ArabicIndicThree

\* regex \s and char::is_whitespace (str::trim)
IsWhitespace(c) == c \in {" ", "\t"}

\* char::to_lowercase on the letters of the alphabet
ToLowerChar(c) ==
  CASE c = "C" -> "c" [] c = "D" -> "d" [] c = "I" -> "i" [] c = "N" -> "n"
    [] c = "S" -> "s" [] c = "E" -> "e"
    [] OTHER -> c

to_lowercase(s) == [i \in 1..Len(s) |-> ToLowerChar(s[i])]

----------------------------------------------------------------------------
(* Strings *)

\* s[i..] starts with w
StartsAt(s, i, w) ==
  /\ i >= 1
  /\ i + Len(w) - 1 <= Len(s)
  /\ \A k \in 1..Len(w) : s[i + k - 1] = w[k]

\* str::contains
Contains(s, w) ==
  \/ w = <<>>
  \/ \E i \in 1..(Len(s) - Len(w) + 1) : s[i] = w[1] /\ StartsAt(s, i, w)

IsAsciiDigit(c) == c \in AsciiDigits

\* length of the longest run of ASCII digits of s from position i
RECURSIVE AsciiDigitRun(_, _)
AsciiDigitRun(s, i) ==
  IF i <= Len(s) /\ IsAsciiDigit(s[i]) THEN 1 + AsciiDigitRun(s, i + 1) ELSE 0

\* length of the longest run of \d characters of s from position i
RECURSIVE ReDigitRun(_, _)
ReDigitRun(s, i) ==
  IF i <= Len(s) /\ ReDigit(s[i]) THEN 1 + ReDigitRun(s, i + 1) ELSE 0

\* length of the longest run of whitespace of s from position i
RECURSIVE SpaceRun(_, _)
SpaceRun(s, i) ==
  IF i <= Len(s) /\ IsWhitespace(s[i]) THEN 1 + SpaceRun(s, i + 1) ELSE 0

\* str::trim
TrimStart(s) == SubSeq(s, 1 + SpaceRun(s, 1), Len(s))

RECURSIVE TrimEnd(_)
TrimEnd(s) ==
  IF s # <<>> /\ IsWhitespace(s[Len(s)]) THEN TrimEnd(SubSeq(s, 1, Len(s) - 1)) ELSE s

Trim(s) == TrimEnd(TrimStart(s))

\* a mutant of trim_end_matches: str::strip_suffix semantics, at most one
\* occurrence removed
strip_one_suffix(s, c) ==
  IF s # <<>> /\ s[Len(s)] = c THEN SubSeq(s, 1, Len(s) - 1) ELSE s

\* str::trim_end_matches(char): every trailing occurrence is removed
RECURSIVE trim_end_matches(_, _)
trim_end_matches(s, c) ==
  IF s # <<>> /\ s[Len(s)] = c
    THEN trim_end_matches(SubSeq(s, 1, Len(s) - 1), c)
    ELSE s

----------------------------------------------------------------------------
(* f64 *)

Fin(v) == [cls |-> "fin", v |-> v]
NaN == [cls |-> "nan", v |-> 0]
Inf(neg) == [cls |-> IF neg THEN "-inf" ELSE "+inf", v |-> 0]

ParseErr == [ok |-> FALSE, f |-> NaN]
ParseOk(f) == [ok |-> TRUE, f |-> f]

\* value of the ASCII digits s[i .. i+n-1]
RECURSIVE DigitsValue(_, _, _)
DigitsValue(s, i, n) ==
  IF n = 0 THEN 0 ELSE 10 * DigitsValue(s, i, n - 1) + DigitVal(s[i + n - 1])

\* the decimal, once its parts are located: n1 integer digits from position
\* 1, n2 fraction digits after the point, and after position q - 1 an
\* exponent of digits from eStart (hasExp, eNeg) or nothing.  Four fraction
\* digits are kept.
DecimalValue(body, neg, n1, n2, q, hasExp, eNeg, eStart) ==
  LET n3 == IF hasExp THEN AsciiDigitRun(body, eStart) ELSE 0
      mant == DigitsValue(body, 1, n1) * Scale
              + DigitsValue(body, n1 + 2, Min2(n2, 4)) * Pow10(4 - Min2(n2, 4))
  IN  IF n1 + n2 >= 1 /\ (hasExp => n3 >= 1)
         /\ (IF hasExp THEN eStart + n3 ELSE q) = Len(body) + 1
        THEN ParseOk(Fin((IF neg THEN -1 ELSE 1)
                         * (IF ~hasExp THEN mant
                            ELSE IF eNeg
                              THEN mant \div Pow10(DigitsValue(body, eStart, n3))
                              ELSE mant * Pow10(DigitsValue(body, eStart, n3)))))
        ELSE ParseErr

\* the exponent of the decimal, looked for at position q: (e|E) [sign] digits
DecimalExponent(body, neg, n1, n2, q) ==
  LET hasExp == q <= Len(body) /\ body[q] \in {"e", "E"}
      eSigned == q + 1 <= Len(body) /\ body[q + 1] \in {"+", "-"}
  IN  DecimalValue(body, neg, n1, n2, q, hasExp,
                   hasExp /\ eSigned /\ body[q + 1] = "-",
                   q + 1 + (IF hasExp /\ eSigned THEN 1 ELSE 0))

\* the fraction of the decimal, looked for after its n1 integer digits
DecimalFraction(body, neg, n1) ==
  IF n1 + 1 <= Len(body) /\ body[n1 + 1] = "."
    THEN DecimalExponent(body, neg, n1, AsciiDigitRun(body, n1 + 2),
                         n1 + 2 + AsciiDigitRun(body, n1 + 2))
    ELSE DecimalExponent(body, neg, n1, 0, n1 + 1)

\* what follows the sign: inf | infinity | nan in any case, or a decimal
UnsignedF64(body, neg) ==
  IF to_lowercase(body) \in {<<"i","n","f">>, <<"i","n","f","i","n","i","t","y">>}
    THEN ParseOk(Inf(neg))
  ELSE IF to_lowercase(body) = <<"n","a","n">> THEN ParseOk(NaN)
  ELSE DecimalFraction(body, neg, AsciiDigitRun(body, 1))

\* <f64 as FromStr>::from_str: [sign] (inf | infinity | nan | decimal), the
\* decimal being digits [. digits] [(e|E) [sign] digits] with at least one
\* mantissa digit; nothing may precede or follow.  Only ASCII digits count.
ParseF64(s) ==
  IF s # <<>> /\ s[1] \in {"+", "-"}
    THEN UnsignedF64(Tail(s), s[1] = "-")
    ELSE UnsignedF64(s, FALSE)

----------------------------------------------------------------------------
(* serde_json::Value *)

JNull == [kind |-> "null", b |-> FALSE, num |-> 0, str |-> <<>>, items |-> <<>>]
JBool(b) == [kind |-> "bool", b |-> b, num |-> 0, str |-> <<>>, items |-> <<>>]
JNum(n) == [kind |-> "number", b |-> FALSE, num |-> n, str |-> <<>>, items |-> <<>>]
JStr(s) == [kind |-> "string", b |-> FALSE, num |-> 0, str |-> s, items |-> <<>>]
JArr(xs) == [kind |-> "array", b |-> FALSE, num |-> 0, str |-> <<>>, items |-> xs]
\* an object is its entries <<key, value>> in the order the map iterates them;
\* keys are distinct
JObj(es) == [kind |-> "object", b |-> FALSE, num |-> 0, str |-> <<>>, items |-> es]

\* Option<T>
None == [some |-> FALSE, val |-> 0]
Some(v) == [some |-> TRUE, val |-> v]

\* Option::or_else
or_else(a, b) == IF a.some THEN a ELSE b

\* a mutant of unwrap_or: zero stands in when nothing was found
unwrap_or_zero(a, d) == IF a.some THEN a.val ELSE 0

\* Option::unwrap_or
unwrap_or(a, d) == IF a.some THEN a.val ELSE d

\* Map::get
HasKey(obj, key) == \E i \in 1..Len(obj.items) : obj.items[i][1] = key
Get(obj, key) ==
  obj.items[CHOOSE i \in 1..Len(obj.items) : obj.items[i][1] = key][2]

----------------------------------------------------------------------------
(* Value::to_string: the compact JSON text *)

RECURSIVE NatToChars(_)
NatToChars(n) ==
  IF n < 10 THEN <<DigitChar(n)>>
  ELSE NatToChars(n \div 10) \o <<DigitChar(n % 10)>>

\* the decimals of f / 10^width, trailing zeros dropped
RECURSIVE FracToChars(_, _)
FracToChars(f, width) ==
  IF f = 0 \/ width = 0 THEN <<>>
  ELSE <<DigitChar(f \div Pow10(width - 1))>>
       \o FracToChars(f % Pow10(width - 1), width - 1)

\* a number prints as an integer when it is one, else with its decimals
NumToChars(n) ==
  LET a == IF n < 0 THEN -n ELSE n
      sign == IF n < 0 THEN <<"-">> ELSE <<>>
  IN  sign \o NatToChars(a \div Scale)
      \o (IF a % Scale = 0 THEN <<>> ELSE <<".">> \o FracToChars(a % Scale, 4))

EscapeChar(c) ==
  CASE c = "\"" -> <<"\\", "\"">>
    [] c = "\\" -> <<"\\", "\\">>
    [] c = "\t" -> <<"\\", "t">>
    [] OTHER -> <<c>>

RECURSIVE Escape(_)
Escape(s) == IF s = <<>> THEN <<>> ELSE EscapeChar(Head(s)) \o Escape(Tail(s))

Quoted(s) == <<"\"">> \o Escape(s) \o <<"\"">>

RECURSIVE to_string(_)
RECURSIVE JoinItems(_, _)
RECURSIVE JoinEntries(_, _)

\* elements k.. of an array, comma separated
JoinItems(xs, k) ==
  IF k > Len(xs) THEN <<>>
  ELSE (IF k > 1 THEN <<",">> ELSE <<>>) \o to_string(xs[k]) \o JoinItems(xs, k + 1)

\* entries k.. of an object, comma separated
JoinEntries(es, k) ==
  IF k > Len(es) THEN <<>>
  ELSE (IF k > 1 THEN <<",">> ELSE <<>>)
       \o Quoted(es[k][1]) \o <<":">> \o to_string(es[k][2])
       \o JoinEntries(es, k + 1)

to_string(v) ==
  CASE v.kind = "null" -> <<"n","u","l","l">>
    [] v.kind = "bool" -> IF v.b THEN <<"t","r","u","e">> ELSE <<"f","a","l","s","e">>
    [] v.kind = "number" -> NumToChars(v.num)
    [] v.kind = "string" -> Quoted(v.str)
    [] v.kind = "array" -> <<"[">> \o JoinItems(v.items, 1) \o <<"]">>
    [] v.kind = "object" -> <<"{">> \o JoinEntries(v.items, 1) \o <<"}">>

----------------------------------------------------------------------------
(* ConfidenceExtractor *)

\* the hybrid blend 0.7 * llm_conf + 0.3 * keyword_conf, in tenths
HybridLlmTenths == 7
HybridKeywordTenths == 3

\* the clamp of the keyword score, score.max(0.1).min(0.95), in hundredths
KeywordFloorHundredths == 10
KeywordCeilHundredths == 95

\* what each matching hedging pattern subtracts (0.1), in hundredths
HedgingPenaltyHundredths == 10

Hundredths(h) == h * (Scale \div 100)

\* a mutant of normalize_confidence_value: an out-of-range value is clamped
\* into [0,1] instead of replaced by the default
normalize_confidence_value_clamping(config, value) ==
  IF value.cls = "fin" /\ 0 <= value.v /\ value.v <= Scale THEN value.v
  ELSE IF value.cls = "fin" /\ value.v > Scale /\ value.v <= 100 * Scale
    THEN value.v \div 100
  ELSE IF value.cls \in {"fin", "-inf"} /\ value.v <= 0 THEN 0
  ELSE Scale

\* normalize_confidence_value(&self, value: f64) -> f64.  Every comparison
\* with NaN is false, and an infinity is in neither range.
normalize_confidence_value(config, value) ==
  IF value.cls = "fin" /\ 0 <= value.v /\ value.v <= Scale THEN value.v
  ELSE IF value.cls = "fin" /\ value.v > Scale /\ value.v <= 100 * Scale
    THEN value.v \div 100
  ELSE config.default_confidence

\* a mutant of normalize_confidence: a number outside [0, 100] could not be
\* normalized (None), so that the search goes on to the next field
map_in_range(config, stated) ==
  IF stated.ok /\ stated.f.cls = "fin" /\ 0 <= stated.f.v
     /\ stated.f.v <= 100 * Scale
    THEN Some(normalize_confidence_value(config, stated.f))
    ELSE None

normalize_confidence_rejecting(config, value) ==
  CASE value.kind = "number" -> map_in_range(config, ParseOk(Fin(value.num)))
    [] value.kind = "string" ->
         map_in_range(config, ParseF64(trim_end_matches(Trim(value.str), "%")))
    [] OTHER -> None

\* parsed.ok().map(|v| self.normalize_confidence_value(v)), or rest when the
\* parse failed
ok_map_normalize(config, parsed, rest) ==
  IF parsed.ok THEN Some(normalize_confidence_value(config, parsed.f)) ELSE rest

\* normalize_confidence(&self, value: &Value) -> Option<f64>
normalize_confidence(config, value) ==
  CASE value.kind = "number" ->
         Some(normalize_confidence_value(config, Fin(value.num)))
    [] value.kind = "string" ->
         ok_map_normalize(config,
                          ParseF64(trim_end_matches(Trim(value.str), "%")),
                          None)
    [] OTHER -> None

s_confidence == <<"c","o","n","f","i","d","e","n","c","e">>
s_uconfidence == <<"_","c","o","n","f","i","d","e","n","c","e">>
s_score == <<"s","c","o","r","e">>
s_certainty == <<"c","e","r","t","a","i","n","t","y">>
s_probability == <<"p","r","o","b","a","b","i","l","i","t","y">>
s_metadata == <<"m","e","t","a","d","a","t","a">>

\* let confidence_fields = [...]
confidence_fields ==
  <<s_confidence, s_uconfidence, s_score, s_certainty, s_probability>>

\* a mutant of SearchFields: the entries of the object are scanned in the
\* order of the map, and the first priority field that normalizes is taken
RECURSIVE SearchEntries(_, _, _)
SearchEntries(config, obj, i) ==
  IF i > Len(obj.items) THEN None
  ELSE or_else(IF \E k \in 1..Len(confidence_fields) :
                       obj.items[i][1] = confidence_fields[k]
                  THEN normalize_confidence(config, obj.items[i][2])
                  ELSE None,
               SearchEntries(config, obj, i + 1))

SearchFields_in_map_order(config, obj, k) == SearchEntries(config, obj, k)

\* for field in &confidence_fields { obj.get(field) ... normalize_confidence }
\* from the k-th field on: the first present field that normalizes to Some
RECURSIVE SearchFields(_, _, _)
SearchFields(config, obj, k) ==
  IF k > Len(confidence_fields) THEN None
  ELSE or_else(IF HasKey(obj, confidence_fields[k])
                  THEN normalize_confidence(config, Get(obj, confidence_fields[k]))
                  ELSE None,
               SearchFields(config, obj, k + 1))

\* if let Some(metadata) = obj.get("metadata").and_then(|m| m.as_object()):
\* the search of the nested object's fields
MetadataSignal(config, obj) ==
  IF HasKey(obj, s_metadata) /\ Get(obj, s_metadata).kind = "object"
    THEN SearchFields(config, Get(obj, s_metadata), 1)
    ELSE None

\* a mutant of StructuredSignal: the metadata object is searched first
StructuredSignal_metadata_first(config, result) ==
  IF result.kind # "object" THEN None
  ELSE or_else(MetadataSignal(config, result), SearchFields(config, result, 1))

\* the structured part of extract_from_llm: the top-level fields, then the
\* fields of the nested metadata object
StructuredSignal(config, result) ==
  IF result.kind # "object" THEN None
  ELSE or_else(SearchFields(config, result, 1), MetadataSignal(config, result))

\* the span matched by (\d+\.?\d*) at position j of text, greedy: its length
NumberSpan(text, j) ==
  LET n1 == ReDigitRun(text, j)
      dot == IF n1 >= 1 /\ j + n1 <= Len(text) /\ text[j + n1] = "." THEN 1 ELSE 0
      n2 == IF dot = 1 THEN ReDigitRun(text, j + n1 + 1) ELSE 0
  IN  n1 + dot + n2

\* the least number of a set of numbers: the leftmost position of a match
MinOf(S) == CHOOSE x \in S : \A y \in S : x <= y

\* the text of the group (\d+\.?\d*) that starts at position j
NumberAt(text, j) == Some(SubSeq(text, j, j + NumberSpan(text, j) - 1))

\* the text of the group (\d+\.?\d*) after the whitespace at position j
NumberAfterSpace(text, j) == NumberAt(text, j + SpaceRun(text, j))

\* <label>:\s*(\d+\.?\d*) matches at position i of text
LabelMatchAt(text, i, label) ==
  /\ StartsAt(text, i, label \o <<":">>)
  /\ LET j == i + Len(label) + 1
     IN  ReDigitRun(text, j + SpaceRun(text, j)) >= 1

\* Regex::captures for <label>:\s*(\d+\.?\d*): group 1 of the leftmost match
LabelCapture(text, label) ==
  IF \A i \in 1..Len(text) : ~LabelMatchAt(text, i, label) THEN None
  ELSE NumberAfterSpace(text, Len(label) + 1
         + MinOf({i \in 1..Len(text) : LabelMatchAt(text, i, label)}))

\* (\d+\.?\d*)\s*%\s*(?:confident|certain|sure) matches at position i
PercentMatchAt(text, i) ==
  /\ ReDigit(text[i])
  /\ LET p == i + NumberSpan(text, i)
         q == p + SpaceRun(text, p)
         r == q + 1 + SpaceRun(text, q + 1)
     IN  /\ q <= Len(text)
         /\ text[q] = "%"
         /\ \E w \in {<<"c","o","n","f","i","d","e","n","t">>, <<"c","e","r","t","a","i","n">>, <<"s","u","r","e">>} : StartsAt(text, r, w)

\* Regex::captures for the percent pattern: group 1 of the leftmost match
PercentCapture(text) ==
  IF \A i \in 1..Len(text) : ~PercentMatchAt(text, i) THEN None
  ELSE NumberAt(text, MinOf({i \in 1..Len(text) : PercentMatchAt(text, i)}))

\* a mutant of pattern_labels: "score:" is tried first
pattern_labels_score_first == <<s_score, s_confidence, s_certainty, s_probability>>

\* let patterns = [...]: the labels of the first four patterns, in order
pattern_labels == <<s_confidence, s_certainty, s_probability, s_score>>

\* re.captures(&text) for the k-th of the five patterns
PatternCapture(text, k) ==
  IF k <= Len(pattern_labels) THEN LabelCapture(text, pattern_labels[k])
  ELSE PercentCapture(text)

NumPatterns == Len(pattern_labels) + 1

\* caps[1].parse::<f64>() where the pattern matched
ParseCapture(caps) == IF caps.some THEN ParseF64(caps.val) ELSE ParseErr

\* for pattern in &patterns { ... }: from the k-th pattern on, the first one
\* that matches and whose capture parses as an f64
RECURSIVE SearchPatterns(_, _, _)
SearchPatterns(config, text, k) ==
  IF k > NumPatterns THEN None
  ELSE ok_map_normalize(config, ParseCapture(PatternCapture(text, k)),
                        SearchPatterns(config, text, k + 1))

\* the text part of extract_from_llm
TextSignal(config, text) == SearchPatterns(config, text, 1)

\* a mutant of extract_from_llm: a text match overrides the structured fields
extract_from_llm_text_first(config, result) ==
  unwrap_or(or_else(TextSignal(config, to_string(result)),
                    StructuredSignal(config, result)),
            config.default_confidence)

\* fn extract_from_llm(&self, result: &Value) -> f64
extract_from_llm(config, result) ==
  unwrap_or(or_else(StructuredSignal(config, result),
                    TextSignal(config, to_string(result))),
            config.default_confidence)

----------------------------------------------------------------------------
(* extract_from_keywords *)

\* let high_confidence: HashMap<&str, f64>: <<word, modifier in hundredths>>
high_confidence ==
  << <<<<"d","e","f","i","n","i","t","e","l","y">>, 15>>,
     <<<<"c","e","r","t","a","i","n","l","y">>, 15>>,
     <<<<"a","b","s","o","l","u","t","e","l","y">>, 15>>,
     <<<<"c","o","n","f","i","r","m","e","d">>, 15>>,
     <<<<"v","e","r","i","f","i","e","d">>, 15>>,
     <<<<"g","u","a","r","a","n","t","e","e","d">>, 15>>,
     <<<<"c","e","r","t","a","i","n">>, 12>>,
     <<<<"s","u","r","e">>, 12>>,
     <<<<"c","l","e","a","r">>, 10>>,
     <<<<"o","b","v","i","o","u","s">>, 10>>,
     <<<<"u","n","d","o","u","b","t","e","d","l","y">>, 12>>,
     <<<<"u","n","q","u","e","s","t","i","o","n","a","b","l","y">>, 12>>,
     <<<<"c","o","n","c","l","u","s","i","v","e">>, 12>>,
     <<<<"d","e","f","i","n","i","t","i","v","e">>, 12>>,
     <<<<"e","s","t","a","b","l","i","s","h","e","d">>, 10>> >>

\* let medium_confidence: HashMap<&str, f64>: <<word, modifier in hundredths>>
medium_confidence ==
  << <<<<"p","r","o","b","a","b","l","y">>, 5>>,
     <<<<"l","i","k","e","l","y">>, 5>>,
     <<<<"a","p","p","e","a","r","s">>, 5>>,
     <<<<"s","e","e","m","s">>, 5>>,
     <<<<"s","u","g","g","e","s","t","s">>, 5>>,
     <<<<"i","n","d","i","c","a","t","e","s">>, 5>>,
     <<<<"m","o","s","t","l","y">>, 4>>,
     <<<<"g","e","n","e","r","a","l","l","y">>, 4>>,
     <<<<"t","y","p","i","c","a","l","l","y">>, 4>>,
     <<<<"r","e","a","s","o","n","a","b","l","e">>, 5>>,
     <<<<"p","l","a","u","s","i","b","l","e">>, 5>>,
     <<<<"e","x","p","e","c","t","e","d">>, 4>> >>

\* let low_confidence: HashMap<&str, f64>: <<word, modifier in hundredths>>
low_confidence ==
  << <<<<"p","o","s","s","i","b","l","y">>, -15>>,
     <<<<"m","a","y","b","e">>, -15>>,
     <<<<"m","i","g","h","t">>, -12>>,
     <<<<"c","o","u","l","d">>, -10>>,
     <<<<"u","n","c","e","r","t","a","i","n">>, -15>>,
     <<<<"u","n","c","l","e","a","r">>, -15>>,
     <<<<"u","n","s","u","r","e">>, -15>>,
     <<<<"d","o","u","b","t">>, -15>>,
     <<<<"g","u","e","s","s">>, -12>>,
     <<<<"a","s","s","u","m","e">>, -10>>,
     <<<<"q","u","e","s","t","i","o","n","a","b","l","e">>, -15>>,
     <<<<"t","e","n","t","a","t","i","v","e">>, -12>>,
     <<<<"a","p","p","r","o","x","i","m","a","t","e">>, -8>>,
     <<<<"e","s","t","i","m","a","t","e","d">>, -8>>,
     <<<<"r","o","u","g","h","l","y">>, -8>> >>

\* the number of positions of text at which word occurs
Occurrences(text, word) ==
  Cardinality({i \in 1..Len(text) : StartsAt(text, i, word)})

\* a mutant of Modifiers: the modifier is added once per occurrence of the word
RECURSIVE Modifiers_per_occurrence(_, _, _)
Modifiers_per_occurrence(text, table, k) ==
  IF k > Len(table) THEN 0
  ELSE Occurrences(text, table[k][1]) * Hundredths(table[k][2])
       + Modifiers_per_occurrence(text, table, k + 1)

\* a mutant of Modifiers: a word counts only where it begins a token, after
\* a space or a quotation mark
RECURSIVE Modifiers_at_token_start(_, _, _)
Modifiers_at_token_start(text, table, k) ==
  IF k > Len(table) THEN 0
  ELSE (IF \E i \in 2..Len(text) : /\ StartsAt(text, i, table[k][1])
                                   /\ text[i - 1] \in {" ", "\""}
        THEN Hundredths(table[k][2]) ELSE 0)
       + Modifiers_at_token_start(text, table, k + 1)

\* for (word, modifier) in table { if text.contains(word) { score += modifier } }
\* summed from the k-th entry on; the sum is exact, so the HashMap's iteration
\* order does not show
RECURSIVE Modifiers(_, _, _)
Modifiers(text, table, k) ==
  IF k > Len(table) THEN 0
  ELSE (IF Contains(text, table[k][1]) THEN Hundredths(table[k][2]) ELSE 0)
       + Modifiers(text, table, k + 1)

\* (?:a1|a2|..)\s+(?:b1|b2|..) matches somewhere in text
TwoWordMatch(text, firsts, seconds) ==
  \E i \in 1..Len(text) : \E a \in firsts :
    /\ StartsAt(text, i, a)
    /\ LET n == SpaceRun(text, i + Len(a))
       IN  /\ n >= 1
           /\ \E b \in seconds : StartsAt(text, i + Len(a) + n, b)

\* let hedging_patterns = [...]; re.is_match(&text) for the k-th of them
HedgingMatch(text, k) ==
  CASE k = 1 -> TwoWordMatch(text, {<<"i">>, <<"w","e">>}, {<<"t","h","i","n","k">>, <<"b","e","l","i","e","v","e">>, <<"s","u","p","p","o","s","e">>})
    [] k = 2 -> TwoWordMatch(text, {<<"m","a","y">>, <<"m","i","g","h","t">>}, {<<"b","e">>})
    [] k = 3 -> TwoWordMatch(text, {<<"c","o","u","l","d">>, <<"w","o","u","l","d">>}, {<<"b","e">>, <<"s","u","g","g","e","s","t">>})
    [] k = 4 -> Contains(text, <<"p","e","r","h","a","p","s">>) \/ Contains(text, <<"p","r","e","s","u","m","a","b","l","y">>)

NumHedgingPatterns == 4

\* a mutant of HedgingCount: the penalty is taken once however many patterns
\* match
HedgingCount_at_most_one(text) ==
  IF \E k \in 1..NumHedgingPatterns : HedgingMatch(text, k) THEN 1 ELSE 0

\* the number of hedging patterns that match
HedgingCount(text) == Cardinality({k \in 1..NumHedgingPatterns : HedgingMatch(text, k)})

\* a mutant of extract_from_keywords: the final clamp is missing
extract_from_keywords_unclamped(config, result) ==
  LET text == to_lowercase(to_string(result))
  IN  config.default_confidence
      + Modifiers(text, high_confidence, 1)
      + Modifiers(text, medium_confidence, 1)
      + Modifiers(text, low_confidence, 1)
      - HedgingCount(text) * Hundredths(HedgingPenaltyHundredths)

\* fn extract_from_keywords(&self, result: &Value) -> f64
extract_from_keywords(config, result) ==
  LET text == to_lowercase(to_string(result))
      score == config.default_confidence
               + Modifiers(text, high_confidence, 1)
               + Modifiers(text, medium_confidence, 1)
               + Modifiers(text, low_confidence, 1)
               - HedgingCount(text) * Hundredths(HedgingPenaltyHundredths)
  IN  Min2(Max2(score, Hundredths(KeywordFloorHundredths)),
           Hundredths(KeywordCeilHundredths))

\* a mutant of extract: the weights of the hybrid blend are exchanged
extract_weights_swapped(config, result) ==
  CASE config.strategy = "Llm" -> extract_from_llm(config, result)
    [] config.strategy = "Keywords" -> extract_from_keywords(config, result)
    [] config.strategy = "Hybrid" ->
         LET llm_conf == extract_from_llm(config, result)
             keyword_conf == extract_from_keywords(config, result)
         IN  (HybridKeywordTenths * llm_conf + HybridLlmTenths * keyword_conf) \div 10

\* pub fn extract(&self, result: &Value) -> f64
extract(config, result) ==
  CASE config.strategy = "Llm" -> extract_from_llm(config, result)
    [] config.strategy = "Keywords" -> extract_from_keywords(config, result)
    [] config.strategy = "Hybrid" ->
         LET llm_conf == extract_from_llm(config, result)
             keyword_conf == extract_from_keywords(config, result)
         IN  (HybridLlmTenths * llm_conf + HybridKeywordTenths * keyword_conf) \div 10

----------------------------------------------------------------------------
(* The state: one extractor and the call being made on it.  Where the      *)
(* value of one operation is studied, calls are made one at a time: a call  *)
(* is entered when none is in progress, runs to its return value, and the   *)
(* caller then takes the value.  Calls made by several callers at once, the *)
(* gRPC agent of grpc_agent.rs and the ParallaxAgent of parallax_agent.rs   *)
(* have their own variables, which rest while the others are studied.       *)

VARIABLES
  config,   \* ConfidenceExtractor.config, fixed by ConfidenceExtractor::new
  call,     \* the call in progress with its return value: [op, arg, ret]
  callers,  \* the calls of concurrent callers, each with its locals
  grpc,     \* serve_agent: its tasks, the GrpcAgent it serves, the registry
  lease     \* ParallaxAgent: serve, its registration and its renewal loop

vars == <<config, call, callers, grpc, lease>>

NoCall == [op |-> "none", arg |-> JNull, ret |-> None]

\* no concurrent caller, no gRPC agent and no ParallaxAgent
NoCallers == <<>>
NoGrpc == [main |-> "unused"]
NoLease == [serve |-> "unused"]
AtRest ==
  /\ callers = NoCallers
  /\ grpc = NoGrpc
  /\ lease = NoLease

\* ExtractionStrategy
Strategies == {"Llm", "Keywords", "Hybrid"}

\* default_confidence of the configurations tried: 0, 0.5 (the value of
\* ConfidenceConfig::default) and 1
DefaultConfidences == {0, Scale \div 2, Scale}

Configs == [default_confidence : DefaultConfidences, strategy : Strategies]

\* ConfidenceExtractor::new(config)
Init ==
  /\ config \in Configs
  /\ call = NoCall
  /\ AtRest

\* ConfidenceExtractor::new(config) for the operations that do not read
\* config.strategy: normalize_confidence, normalize_confidence_value and
\* extract_from_llm
InitAnyDefault ==
  /\ config \in {c \in Configs : c.strategy = "Llm"}
  /\ call = NoCall
  /\ AtRest

----------------------------------------------------------------------------
(* Inputs of normalize_confidence *)

\* the longest string drawn exhaustively from NormalizeAlphabet
MaxStrLen == 3

NormalizeAlphabet == {"9", "0", ".", "%", " ", "-", "n", "a"}

RECURSIVE StringsUpTo(_, _)
StringsUpTo(alphabet, n) ==
  IF n = 0 THEN {<<>>}
  ELSE LET shorter == StringsUpTo(alphabet, n - 1)
       IN  shorter \cup {Append(s, c) : s \in shorter, c \in alphabet}

\* further strings: "73%", " 90% ", "50%%", "\t0.5%", "abc", "inf", "NaN", "+85"
NamedStrings ==
  { <<"7","3","%">>, <<" ","9","0","%"," ">>, <<"5","0","%","%">>,
    <<"\t","0",".","5","%">>, <<"a","b","c">>, <<"i","n","f">>,
    <<"N","a","N">>, <<"+","8","5">>, <<"1","5","0","%">> }

\* JSON numbers: -1, 0, 0.42, 1, 1.5, 85, 100, 100.5, 150
NumberInputs ==
  { -Scale, 0, 42 * (Scale \div 100), Scale, 15 * (Scale \div 10), 85 * Scale,
    100 * Scale, 1005 * (Scale \div 10), 150 * Scale }

NormalizeInputs ==
  {JStr(s) : s \in StringsUpTo(NormalizeAlphabet, MaxStrLen) \cup NamedStrings}
  \cup {JNum(n) : n \in NumberInputs}
  \cup {JNull, JBool(TRUE), JBool(FALSE), JArr(<<JNum(Scale \div 2)>>),
        JObj(<<>>)}

\* f64 arguments of normalize_confidence_value
F64Inputs == {Fin(n) : n \in NumberInputs} \cup {NaN, Inf(FALSE), Inf(TRUE)}

\* a call of normalize_confidence
NormalizeConfidence ==
  \E value \in NormalizeInputs :
    /\ call.op = "none"
    /\ call' = [op |-> "normalize_confidence", arg |-> value,
                ret |-> normalize_confidence(config, value)]
    /\ UNCHANGED <<config, callers, grpc, lease>>

\* a call of normalize_confidence_value
NormalizeConfidenceValue ==
  \E value \in F64Inputs :
    /\ call.op = "none"
    /\ call' = [op |-> "normalize_confidence_value", arg |-> value,
                ret |-> normalize_confidence_value(config, value)]
    /\ UNCHANGED <<config, callers, grpc, lease>>

\* the caller takes the return value
Return ==
  /\ call.op # "none"
  /\ call' = NoCall
  /\ UNCHANGED <<config, callers, grpc, lease>>

NextNormalize == NormalizeConfidence \/ NormalizeConfidenceValue \/ Return

SpecNormalize == InitAnyDefault /\ [][NextNormalize]_vars

----------------------------------------------------------------------------
(* Properties of normalize_confidence and normalize_confidence_value *)

\* the numeric rule as the specification words it: v in [0,1] is kept, v in
\* (1,100] is divided by 100, anything else gives the configured default
FollowsNumericRule(v, out) ==
  /\ (0 <= v /\ v <= Scale) => out = v
  /\ (Scale < v /\ v <= 100 * Scale) => 100 * out = v
  /\ (v < 0 \/ v > 100 * Scale) => out = config.default_confidence

\* C4: on a number v, normalize returns v when 0 <= v <= 1, v/100 when
\* 1 < v <= 100, and the configured default_confidence otherwise; an
\* out-of-range value is never clamped to 0 or 1.
C4_NumericRule ==
  /\ (call.op = "normalize_confidence_value" /\ call.arg.cls = "fin")
       => FollowsNumericRule(call.arg.v, call.ret)
  /\ (call.op = "normalize_confidence" /\ call.arg.kind = "number")
       => call.ret.some /\ FollowsNumericRule(call.arg.num, call.ret.val)

\* normalize(150) with default_confidence 0.5 has returned 0.5, and
\* normalize(85) has returned 0.85
C4_Witness ==
  /\ call.op = "normalize_confidence"
  /\ call.arg.kind = "number"
  /\ config.default_confidence = Scale \div 2
  /\ \/ call.arg.num = 150 * Scale /\ call.ret = Some(Scale \div 2)
     \/ call.arg.num = -Scale /\ call.ret = Some(Scale \div 2)

\* the string without its surrounding whitespace
Trimmed(s) ==
  LET inside == {i \in 1..Len(s) : ~IsWhitespace(s[i])}
  IN  IF inside = {} THEN <<>>
      ELSE SubSeq(s, CHOOSE i \in inside : \A j \in inside : i <= j,
                     CHOOSE i \in inside : \A j \in inside : i >= j)

\* t without its last character when that is '%'
WithoutOnePercent(t) ==
  IF Len(t) >= 1 /\ t[Len(t)] = "%" THEN SubSeq(t, 1, Len(t) - 1) ELSE t

\* t without all of its trailing '%' characters
WithoutPercents(t) ==
  LET kept == {n \in 0..Len(t) :
                 /\ n = 0 \/ t[n] # "%"
                 /\ \A k \in (n + 1)..Len(t) : t[k] = "%"}
  IN  SubSeq(t, 1, CHOOSE n \in kept : TRUE)

\* the call was normalize_confidence on a string, and its result is that of
\* parsing `cleaned` and applying the numeric rule, None when it does not
\* parse
StringResultIs(cleaned) ==
  LET parsed == ParseF64(cleaned)
  IN  /\ call.ret.some <=> parsed.ok
      /\ (parsed.ok /\ parsed.f.cls = "fin")
           => FollowsNumericRule(parsed.f.v, call.ret.val)
      /\ (parsed.ok /\ parsed.f.cls # "fin")
           => call.ret.val = config.default_confidence

\* C5 as claimed: on a string, normalize trims the whitespace, strips exactly
\* one trailing '%', parses the rest and applies the numeric rule; a string
\* that does not parse after that single strip could not be normalized.
C5_StripsExactlyOnePercent ==
  (call.op = "normalize_confidence" /\ call.arg.kind = "string")
    => StringResultIs(WithoutOnePercent(Trimmed(call.arg.str)))

\* C5 as amended: on a string, normalize trims the whitespace, strips every
\* trailing '%', parses the rest and applies the numeric rule; a string that
\* does not parse after that could not be normalized.
C5_StripsAllPercents ==
  (call.op = "normalize_confidence" /\ call.arg.kind = "string")
    => StringResultIs(WithoutPercents(Trimmed(call.arg.str)))

\* normalize("50%%") has returned Some(0.5), and normalize(" 90% ") Some(0.9)
C5_Witness ==
  /\ call.op = "normalize_confidence"
  /\ call.arg.kind = "string"
  /\ call.arg.str = <<"5","0","%","%">>
  /\ call.ret = Some(Scale \div 2)

----------------------------------------------------------------------------
(* Inputs of extract_from_llm *)

s_text == <<"t","e","x","t">>
s_high == <<"h","i","g","h">>

\* the keys of the results, in the order a serde_json Map iterates them
\* (a BTreeMap: byte order of the keys)
KeyOrder ==
  <<s_uconfidence, s_certainty, s_confidence, s_metadata, s_probability,
    s_score, s_text>>

PriorityKeys == {confidence_fields[k] : k \in 1..Len(confidence_fields)}

\* the entries of the map f (key -> value), from the k-th key of KeyOrder on
RECURSIVE EntriesFrom(_, _)
EntriesFrom(f, k) ==
  IF k > Len(KeyOrder) THEN <<>>
  ELSE (IF KeyOrder[k] \in DOMAIN f THEN <<<<KeyOrder[k], f[KeyOrder[k]]>>>> ELSE <<>>)
       \o EntriesFrom(f, k + 1)

ObjectOf(f) == JObj(EntriesFrom(f, 1))

\* the maps that give values of vals to at most n of the priority keys
FieldMaps(n, vals) ==
  UNION {[keys -> vals] : keys \in {ks \in SUBSET PriorityKeys : Cardinality(ks) <= n}}

\* the most priority fields at the top level of a result
MaxTop == 2
\* the most priority fields under metadata
MaxMeta == 2
\* the most pieces of a text
MaxPieces == 2

\* values of a priority field: 0.42, "73%", 150, "high", true
FieldValues ==
  { JNum(42 * (Scale \div 100)), JStr(<<"7","3","%">>), JNum(150 * Scale),
    JStr(s_high), JBool(TRUE) }

\* values of a priority field under metadata: 0.9, 0.8, "high"
MetaFieldValues ==
  {JNum(9 * (Scale \div 10)), JNum(8 * (Scale \div 10)), JStr(s_high)}

\* "confidence: 85", "certainty: 0.7", "probability:40", "score: 0.9",
\* "60% sure", "30 % confident", "confidence: high", "score: 150",
\* "confidence: " and a non-ASCII digit, "Confidence: 20"
TextPieces ==
  { <<"c","o","n","f","i","d","e","n","c","e",":"," ","8","5">>,
    <<"c","e","r","t","a","i","n","t","y",":"," ","0",".","7">>,
    <<"p","r","o","b","a","b","i","l","i","t","y",":","4","0">>,
    <<"s","c","o","r","e",":"," ","0",".","9">>,
    <<"6","0","%"," ","s","u","r","e">>,
    <<"3","0"," ","%"," ","c","o","n","f","i","d","e","n","t">>,
    <<"c","o","n","f","i","d","e","n","c","e",":"," ","h","i","g","h">>,
    <<"s","c","o","r","e",":"," ","1","5","0">>,
    <<"c","o","n","f","i","d","e","n","c","e",":"," ",ArabicIndicThree>>,
    <<"C","o","n","f","i","d","e","n","c","e",":"," ","2","0">> }

\* the texts of at most n pieces, separated by single spaces
RECURSIVE TextsUpTo(_)
TextsUpTo(n) ==
  IF n = 0 THEN {<<>>}
  ELSE LET shorter == TextsUpTo(n - 1)
       IN  shorter \cup {IF t = <<>> THEN p ELSE t \o <<" ">> \o p :
                           t \in shorter, p \in TextPieces}

\* objects of priority fields only
FieldResults == {ObjectOf(f) : f \in FieldMaps(MaxTop, FieldValues)}

\* values of the metadata key: objects of priority fields, and values that
\* are no object
MetadataValues ==
  {ObjectOf(g) : g \in FieldMaps(MaxMeta, MetaFieldValues)}
  \cup {JStr(<<"s","c","o","r","e",":"," ","0",".","9">>), JNull}

\* objects with a metadata key beside at most one top-level priority field:
\* one holding "high", or probability holding 0.42, or one holding 150
MetadataResults ==
  {ObjectOf(f @@ (s_metadata :> m)) :
     f \in FieldMaps(1, {JStr(s_high)})
            \cup {s_probability :> JNum(42 * (Scale \div 100))},
     m \in MetadataValues}
  \cup {ObjectOf(f @@ (s_metadata :> ObjectOf(g))) :
          f \in FieldMaps(1, {JNum(150 * Scale)}),
          g \in FieldMaps(1, MetaFieldValues)}

\* a bare string, and an object holding the string under "text"
TextResults ==
  {JStr(t) : t \in TextsUpTo(MaxPieces)}
  \cup {ObjectOf(s_text :> JStr(t)) : t \in TextsUpTo(1)}

\* a text beside at most one top-level priority field, with or without a
\* metadata object
MixedResults ==
  {ObjectOf(f @@ (s_text :> JStr(t))) :
     f \in FieldMaps(1, FieldValues), t \in TextsUpTo(1)}
  \cup {ObjectOf(f @@ (s_metadata :> m) @@ (s_text :> JStr(t))) :
          f \in FieldMaps(1, {JStr(s_high)}),
          m \in {ObjectOf(g) : g \in FieldMaps(1, {JNum(9 * (Scale \div 10))})},
          t \in TextsUpTo(1)}

\* results that are no object and no string
ScalarResults ==
  {JNull, JBool(FALSE), JNum(85 * Scale), JArr(<<JNum(9 * (Scale \div 10))>>)}

LlmResults ==
  FieldResults \cup MetadataResults \cup TextResults \cup MixedResults
  \cup ScalarResults

\* a call of extract_from_llm
ExtractFromLlm ==
  \E result \in LlmResults :
    /\ call.op = "none"
    /\ call' = [op |-> "extract_from_llm", arg |-> result,
                ret |-> extract_from_llm(config, result)]
    /\ UNCHANGED <<config, callers, grpc, lease>>

NextLlm == ExtractFromLlm \/ Return

SpecLlm == InitAnyDefault /\ [][NextLlm]_vars

----------------------------------------------------------------------------
(* Properties of extract_from_llm *)

IsLlmCall == call.op = "extract_from_llm"

\* the priority order of the field names, as the specification gives it
PriorityOrder ==
  << <<"c","o","n","f","i","d","e","n","c","e">>,
     <<"_","c","o","n","f","i","d","e","n","c","e">>,
     <<"s","c","o","r","e">>,
     <<"c","e","r","t","a","i","n","t","y">>,
     <<"p","r","o","b","a","b","i","l","i","t","y">> >>

MetadataKey == <<"m","e","t","a","d","a","t","a">>

\* the places k of PriorityOrder whose field is present in obj with a value
\* that normalize_confidence turns into Some
NormalizingPlaces(obj) ==
  {k \in 1..Len(PriorityOrder) :
     /\ HasKey(obj, PriorityOrder[k])
     /\ normalize_confidence(config, Get(obj, PriorityOrder[k])).some}

Least(places) == CHOOSE k \in places : \A j \in places : k <= j

\* the normalized value of the first field of obj, in priority order, that
\* normalizes
FirstNormalized(obj) ==
  normalize_confidence(config, Get(obj, PriorityOrder[Least(NormalizingPlaces(obj))])).val

HasMetadataObject(result) ==
  /\ HasKey(result, MetadataKey)
  /\ Get(result, MetadataKey).kind = "object"

\* the same object with its entries in another order
Reordered(obj) ==
  {JObj([i \in 1..Len(obj.items) |-> obj.items[p[i]]]) :
     p \in Permutations(1..Len(obj.items))}

\* C6: when several top-level priority fields hold values that normalize, the
\* result is the normalized value of the first of them in the order
\* confidence, _confidence, score, certainty, probability, whatever the order
\* of the keys in the object.
C6_FirstInPriorityOrder ==
  (IsLlmCall /\ call.arg.kind = "object"
     /\ Cardinality(NormalizingPlaces(call.arg)) >= 2)
    => /\ call.ret = FirstNormalized(call.arg)
       /\ \A other \in Reordered(call.arg) :
            extract_from_llm(config, other) = call.ret

\* score (third in priority) and _confidence (second) both normalize, to
\* different values; _confidence has supplied the result
C6_Witness ==
  /\ IsLlmCall
  /\ call.arg.kind = "object"
  /\ NormalizingPlaces(call.arg) = {2, 3}
  /\ Get(call.arg, PriorityOrder[3]) = JStr(<<"7","3","%">>)
  /\ Get(call.arg, PriorityOrder[2]) = JNum(42 * (Scale \div 100))
  /\ call.ret = 42 * (Scale \div 100)

\* the number a field value states, if it states one: a JSON number, or a
\* string that parses once trimmed and rid of its trailing '%'
StatedNumber(value) ==
  CASE value.kind = "number" -> ParseOk(Fin(value.num))
    [] value.kind = "string" -> ParseF64(WithoutPercents(Trimmed(value.str)))
    [] OTHER -> ParseErr

\* the value states a number within [0, 100]
StatesInRange(value) ==
  LET n == StatedNumber(value)
  IN  n.ok /\ n.f.cls = "fin" /\ 0 <= n.f.v /\ n.f.v <= 100 * Scale

\* the values of the priority fields of the result in search order: the top
\* level in priority order, then the metadata object in priority order
RECURSIVE PresentFrom(_, _)
PresentFrom(obj, k) ==
  IF k > Len(PriorityOrder) THEN <<>>
  ELSE (IF HasKey(obj, PriorityOrder[k]) THEN <<Get(obj, PriorityOrder[k])>> ELSE <<>>)
       \o PresentFrom(obj, k + 1)

Candidates(result) ==
  PresentFrom(result, 1)
  \o (IF HasMetadataObject(result) THEN PresentFrom(Get(result, MetadataKey), 1)
      ELSE <<>>)

\* the result is what the numeric rule makes of the number stated by value
SuppliedBy(value) ==
  LET n == StatedNumber(value)
  IN  IF n.f.cls = "fin" THEN FollowsNumericRule(n.f.v, call.ret)
      ELSE call.ret = config.default_confidence

\* C7 as claimed: a priority field whose value is a boolean, null, an array,
\* an object, an unparsable string or an out-of-range number is skipped, and
\* the next field in search order that states a number within range supplies
\* the result.
C7_SkipsOutOfRange ==
  (IsLlmCall /\ call.arg.kind = "object")
    => LET cs == Candidates(call.arg)
           good == {i \in 1..Len(cs) : StatesInRange(cs[i])}
       IN  good # {} => SuppliedBy(cs[Least(good)])

\* C7 as amended: a priority field whose value is a boolean, null, an array,
\* an object or an unparsable string is skipped, and the next field in search
\* order that states a number supplies the result; when that number is out of
\* range (150, -1) the search ends there and the result is default_confidence.
C7_SkipsUnparsable ==
  (IsLlmCall /\ call.arg.kind = "object")
    => LET cs == Candidates(call.arg)
           numeric == {i \in 1..Len(cs) : StatedNumber(cs[i]).ok}
       IN  numeric # {} => SuppliedBy(cs[Least(numeric)])

\* confidence holds true and is skipped; score, which holds "73%", has
\* supplied 0.73
C7_Witness ==
  /\ IsLlmCall
  /\ call.arg.kind = "object"
  /\ HasKey(call.arg, PriorityOrder[1])
  /\ Get(call.arg, PriorityOrder[1]) = JBool(TRUE)
  /\ HasKey(call.arg, PriorityOrder[3])
  /\ Get(call.arg, PriorityOrder[3]) = JStr(<<"7","3","%">>)
  /\ call.ret = 73 * (Scale \div 100)

\* C8: any top-level priority field that normalizes wins over every field
\* under metadata; metadata is searched only when no top-level field
\* normalizes, and then in the same priority order.
C8_TopLevelBeforeMetadata ==
  (IsLlmCall /\ call.arg.kind = "object")
    => /\ NormalizingPlaces(call.arg) # {}
            => call.ret = FirstNormalized(call.arg)
       /\ (NormalizingPlaces(call.arg) = {} /\ HasMetadataObject(call.arg)
            /\ NormalizingPlaces(Get(call.arg, MetadataKey)) # {})
            => call.ret = FirstNormalized(Get(call.arg, MetadataKey))

\* top-level probability 0.42 has won over metadata.confidence 0.9
C8_Witness ==
  /\ IsLlmCall
  /\ call.arg.kind = "object"
  /\ NormalizingPlaces(call.arg) = {5}
  /\ HasMetadataObject(call.arg)
  /\ 1 \in NormalizingPlaces(Get(call.arg, MetadataKey))
  /\ Get(Get(call.arg, MetadataKey), PriorityOrder[1]) = JNum(9 * (Scale \div 10))
  /\ call.ret = 42 * (Scale \div 100)

\* the structured search found a field that normalizes
HasStructuredSignal(result) ==
  /\ result.kind = "object"
  /\ \/ NormalizingPlaces(result) # {}
     \/ HasMetadataObject(result)
          /\ NormalizingPlaces(Get(result, MetadataKey)) # {}

\* the order of the label patterns, as the specification gives it; the
\* percent pattern comes fifth
LabelOrder ==
  << <<"c","o","n","f","i","d","e","n","c","e">>,
     <<"c","e","r","t","a","i","n","t","y">>,
     <<"p","r","o","b","a","b","i","l","i","t","y">>,
     <<"s","c","o","r","e">> >>

\* group 1 of the k-th pattern's leftmost match in text, None without a match
CapturedBy(text, k) ==
  IF k <= Len(LabelOrder) THEN LabelCapture(text, LabelOrder[k])
  ELSE PercentCapture(text)

\* the patterns that match somewhere in text
MatchingPatterns(text) ==
  {k \in 1..(Len(LabelOrder) + 1) : CapturedBy(text, k).some}

\* the patterns that match somewhere in text with a capture that parses
ParsingPatterns(text) ==
  {k \in MatchingPatterns(text) : ParseF64(CapturedBy(text, k).val).ok}

\* C9: the text patterns are consulted only when the structured search found
\* no signal, and default_confidence is returned only when neither the
\* structured search nor a text pattern gave a signal.
C9_StrictFallbackChain ==
  IsLlmCall
    => LET text == to_string(call.arg)
           structured == HasStructuredSignal(call.arg)
           textual == ParsingPatterns(text) # {}
       IN  /\ structured
                => call.ret = (IF NormalizingPlaces(call.arg) # {}
                                 THEN FirstNormalized(call.arg)
                                 ELSE FirstNormalized(Get(call.arg, MetadataKey)))
           /\ (~structured /\ textual)
                => call.ret = normalize_confidence_value(config,
                                 ParseF64(CapturedBy(text, Least(ParsingPatterns(text))).val).f)
           /\ (~structured /\ ~textual) => call.ret = config.default_confidence

\* a field gave 0.42 while the text of the same result matches a pattern
\* that would have given 0.85; the field's value is returned
C9_Witness ==
  /\ IsLlmCall
  /\ HasStructuredSignal(call.arg)
  /\ call.ret = 42 * (Scale \div 100)
  /\ LET text == to_string(call.arg)
     IN  /\ 1 \in ParsingPatterns(text)
         /\ TextSignal(config, text) = Some(85 * (Scale \div 100))

\* C10 as claimed: the first pattern, in the order confidence:, certainty:,
\* probability:, score:, percent, that matches anywhere in the text supplies
\* the number, which goes through the numeric rule.
C10_FirstMatchingPattern ==
  (IsLlmCall /\ ~HasStructuredSignal(call.arg))
    => LET text == to_string(call.arg)
           matching == MatchingPatterns(text)
       IN  matching # {}
             => LET parsed == ParseF64(CapturedBy(text, Least(matching)).val)
                IN  /\ parsed.ok
                    /\ parsed.f.cls = "fin"
                    /\ FollowsNumericRule(parsed.f.v, call.ret)

\* C10 as amended: the first pattern, in that order, that matches anywhere in
\* the text with a capture that parses as a float supplies the number, which
\* goes through the numeric rule; a match whose capture does not parse (digits
\* outside ASCII) is passed over.
C10_FirstParsingPattern ==
  (IsLlmCall /\ ~HasStructuredSignal(call.arg))
    => LET text == to_string(call.arg)
           parsing == ParsingPatterns(text)
       IN  parsing # {}
             => LET parsed == ParseF64(CapturedBy(text, Least(parsing)).val)
                IN  /\ parsed.f.cls = "fin"
                    /\ FollowsNumericRule(parsed.f.v, call.ret)

\* "score: 0.9 confidence: 85": score: matches first in the text, confidence:
\* comes first in the order and has supplied 0.85
C10_Witness ==
  /\ IsLlmCall
  /\ call.arg.kind = "string"
  /\ LET text == to_string(call.arg)
     IN  /\ {1, 4} \subseteq MatchingPatterns(text)
         /\ \E i, j \in 1..Len(text) :
              /\ i < j
              /\ LabelMatchAt(text, i, LabelOrder[4])
              /\ LabelMatchAt(text, j, LabelOrder[1])
  /\ call.ret = 85 * (Scale \div 100)

----------------------------------------------------------------------------
(* Inputs of extract *)

\* the most pieces of a text of vocabulary words and hedging phrases
MaxWords == 2

\* "definitely", "uncertain", "i think", "might be", "perhaps", "probably",
\* "could suggest", "clear"
KeywordPieces ==
  { <<"d","e","f","i","n","i","t","e","l","y">>,
    <<"u","n","c","e","r","t","a","i","n">>,
    <<"i"," ","t","h","i","n","k">>,
    <<"m","i","g","h","t"," ","b","e">>,
    <<"p","e","r","h","a","p","s">>,
    <<"p","r","o","b","a","b","l","y">>,
    <<"c","o","u","l","d"," ","s","u","g","g","e","s","t">>,
    <<"c","l","e","a","r">> }

\* the texts of at most n keyword pieces, separated by single spaces
RECURSIVE KeywordTextsUpTo(_)
KeywordTextsUpTo(n) ==
  IF n = 0 THEN {<<>>}
  ELSE LET shorter == KeywordTextsUpTo(n - 1)
       IN  shorter \cup {IF t = <<>> THEN p ELSE t \o <<" ">> \o p :
                           t \in shorter, p \in KeywordPieces}

\* a text of keyword pieces under "text", alone, beside score: 0.6 or beside
\* confidence: "high"
KeywordResults ==
  {ObjectOf(f @@ (s_text :> JStr(t))) :
     f \in {<<>>, s_score :> JNum(6 * (Scale \div 10)), s_confidence :> JStr(s_high)},
     t \in KeywordTextsUpTo(MaxWords)}

ExtractResults ==
  KeywordResults
  \cup {ObjectOf(f) : f \in FieldMaps(1, FieldValues)}
  \cup {JStr(t) : t \in TextsUpTo(1)}
  \cup {ObjectOf(s_text :> JStr(t)) : t \in TextsUpTo(1)}
  \cup ScalarResults

\* a call of extract
Extract ==
  \E result \in ExtractResults :
    /\ call.op = "none"
    /\ call' = [op |-> "extract", arg |-> result, ret |-> extract(config, result)]
    /\ UNCHANGED <<config, callers, grpc, lease>>

NextExtract == Extract \/ Return

SpecExtract == Init /\ [][NextExtract]_vars

----------------------------------------------------------------------------
(* Properties of extract *)

IsExtractCall == call.op = "extract"

\* the keyword score before the clamp: the default plus every modifier, less
\* the hedging penalties
UnclampedKeywordScore(result) ==
  LET text == to_lowercase(to_string(result))
  IN  config.default_confidence
      + Modifiers(text, high_confidence, 1)
      + Modifiers(text, medium_confidence, 1)
      + Modifiers(text, low_confidence, 1)
      - HedgingCount(text) * Hundredths(HedgingPenaltyHundredths)

\* C1: for every result, every strategy and every default_confidence in
\* [0,1], the value extract returns lies in [0,1].
C1_ExtractInUnitRange ==
  IsExtractCall => (0 <= call.ret /\ call.ret <= Scale)

\* the keyword score left [0,1] before the clamp (default 1 and "definitely",
\* or default 0 and "uncertain"), and extract has returned a value in [0,1]
C1_Witness ==
  /\ IsExtractCall
  /\ config.strategy \in {"Keywords", "Hybrid"}
  /\ \/ UnclampedKeywordScore(call.arg) > Scale
     \/ UnclampedKeywordScore(call.arg) < 0
  /\ 0 <= call.ret
  /\ call.ret <= Scale

\* C3: extract returns extract_from_llm(result) under the structured
\* strategy, extract_from_keywords(result) under the keyword strategy, and
\* 0.7 * extract_from_llm(result) + 0.3 * extract_from_keywords(result) under
\* the hybrid strategy.
C3_DispatchOnStrategy ==
  IsExtractCall
    => /\ config.strategy = "Llm"
            => call.ret = extract_from_llm(config, call.arg)
       /\ config.strategy = "Keywords"
            => call.ret = extract_from_keywords(config, call.arg)
       /\ config.strategy = "Hybrid"
            => 10 * call.ret = 7 * extract_from_llm(config, call.arg)
                               + 3 * extract_from_keywords(config, call.arg)

\* hybrid, default 0.5, score: 0.6 and a text with "definitely": the
\* structured part is 0.6, the keyword part 0.65, and extract has returned
\* 0.7 * 0.6 + 0.3 * 0.65 = 0.615
C3_Witness ==
  /\ IsExtractCall
  /\ config.strategy = "Hybrid"
  /\ extract_from_llm(config, call.arg) = 6 * (Scale \div 10)
  /\ extract_from_keywords(config, call.arg) = 65 * (Scale \div 100)
  /\ call.ret = 615 * (Scale \div 1000)

----------------------------------------------------------------------------
(* extract_from_keywords on its own *)

\* default_confidence of the configurations tried: -0.5, 0, 0.5, 1 and 2
KeywordDefaults == {-(Scale \div 2), 0, Scale \div 2, Scale, 2 * Scale}

\* ConfidenceExtractor::new(config), the strategy being the keyword one
InitKeywords ==
  /\ config \in [default_confidence : KeywordDefaults, strategy : {"Keywords"}]
  /\ call = NoCall
  /\ AtRest

\* vocabulary words that hold a shorter vocabulary word: "uncertain",
\* "unsure", "unclear", "certainly"
OverlappingWords ==
  { <<"u","n","c","e","r","t","a","i","n">>,
    <<"u","n","s","u","r","e">>,
    <<"u","n","c","l","e","a","r">>,
    <<"c","e","r","t","a","i","n","l","y">> }

\* a call of extract_from_keywords: on a text of keyword pieces, on a result
\* that is no object, on an object whose one priority field holds "high", or
\* on a text that is one overlapping word
ExtractFromKeywords ==
  \E result \in KeywordResults \cup ScalarResults
                 \cup {ObjectOf(f) : f \in FieldMaps(1, {JStr(s_high)})}
                 \cup {ObjectOf(s_text :> JStr(w)) : w \in OverlappingWords} :
    /\ call.op = "none"
    /\ call' = [op |-> "extract_from_keywords", arg |-> result,
                ret |-> extract_from_keywords(config, result)]
    /\ UNCHANGED <<config, callers, grpc, lease>>

NextKeywords == ExtractFromKeywords \/ Return

SpecKeywords == InitKeywords /\ [][NextKeywords]_vars

----------------------------------------------------------------------------
(* Properties of extract_from_keywords *)

IsKeywordCall == call.op = "extract_from_keywords"

\* the lowercased text of a result
LowerText(result) == to_lowercase(to_string(result))

\* the three vocabularies as one set of <<word, delta in hundredths>>
Vocabulary ==
  {high_confidence[k] : k \in 1..Len(high_confidence)}
  \cup {medium_confidence[k] : k \in 1..Len(medium_confidence)}
  \cup {low_confidence[k] : k \in 1..Len(low_confidence)}

\* the vocabulary words present in a text: a set, so that how often a word
\* occurs cannot show
PresentWords(text) == {e \in Vocabulary : Contains(text, e[1])}

\* the sum of the deltas of a set of vocabulary entries
RECURSIVE DeltaSum(_)
DeltaSum(entries) ==
  IF entries = {} THEN 0
  ELSE LET e == CHOOSE x \in entries : TRUE
       IN  Hundredths(e[2]) + DeltaSum(entries \ {e})

\* the final clamp to [0.10, 0.95]
Clamped(score) == Min2(Max2(score, Scale \div 10), 95 * (Scale \div 100))

\* the score the set of present words and the hedging patterns give a text
ScoreOfPresentWords(text) ==
  Clamped(config.default_confidence + DeltaSum(PresentWords(text))
          - HedgingCount(text) * (Scale \div 10))

\* a keyword piece twice, separated by a space, under "text"
Doubled(p) == ObjectOf(s_text :> JStr(p \o <<" ">> \o p))

\* C11: the keyword score depends only on which vocabulary words are present
\* in the lowercased text: every distinct word present adds its delta once,
\* and a text that repeats a word scores as the text with the word once.
C11_OncePerDistinctWord ==
  IsKeywordCall
    => /\ call.ret = ScoreOfPresentWords(LowerText(call.arg))
       /\ \A p \in KeywordPieces :
            call.arg = Doubled(p)
              => call.ret = ScoreOfPresentWords(LowerText(ObjectOf(s_text :> JStr(p))))

\* default 0.5 and the text "definitely definitely": the score is 0.65, the
\* delta 0.15 added once
C11_Witness ==
  /\ IsKeywordCall
  /\ call.arg = Doubled(<<"d","e","f","i","n","i","t","e","l","y">>)
  /\ config.default_confidence = Scale \div 2
  /\ call.ret = 65 * (Scale \div 100)

\* C12: extract_from_keywords returns a value in [0.10, 0.95] for every
\* result and every default_confidence.
C12_KeywordsInClampRange ==
  IsKeywordCall
    => (Scale \div 10 <= call.ret /\ call.ret <= 95 * (Scale \div 100))

\* the score before the clamp lies outside [0.10, 0.95]: below it (default
\* -0.5 or 0 with negative deltas) or above it (default 1 or 2), and the
\* returned value is the bound
C12_Witness ==
  /\ IsKeywordCall
  /\ PresentWords(LowerText(call.arg)) # {}
  /\ \/ /\ UnclampedKeywordScore(call.arg) < 0
        /\ call.ret = Scale \div 10
     \/ /\ UnclampedKeywordScore(call.arg) > Scale
        /\ call.ret = 95 * (Scale \div 100)

\* the hedging patterns that match a text
MatchingHedges(text) == {k \in 1..4 : HedgingMatch(text, k)}

\* C13: each of the four hedging patterns that matches the lowercased text
\* subtracts 0.10 once, independently of the others and in addition to the
\* vocabulary deltas: k matching patterns subtract k * 0.10 before the clamp.
C13_HedgingStacks ==
  IsKeywordCall
    => call.ret
         = Clamped(config.default_confidence
                   + Modifiers(LowerText(call.arg), high_confidence, 1)
                   + Modifiers(LowerText(call.arg), medium_confidence, 1)
                   + Modifiers(LowerText(call.arg), low_confidence, 1)
                   - Cardinality(MatchingHedges(LowerText(call.arg)))
                     * (Scale \div 10))

\* default 0.5 and a text in which two hedging patterns match and no
\* vocabulary word is present ("i think perhaps"): the score is 0.3
C13_Witness ==
  /\ IsKeywordCall
  /\ Cardinality(MatchingHedges(LowerText(call.arg))) = 2
  /\ PresentWords(LowerText(call.arg)) = {}
  /\ config.default_confidence = Scale \div 2
  /\ call.ret = 3 * (Scale \div 10)

\* the result {"text": word}
TextOnly(word) == ObjectOf(s_text :> JStr(word))

\* the call is on {"text": word} and has returned the default plus
\* hundredths / 100, clamped to [0.10, 0.95]
ScoredAs(word, hundredths) ==
  call.arg = TextOnly(word)
    => call.ret = Min2(Max2(config.default_confidence + hundredths * (Scale \div 100),
                            Scale \div 10),
                       95 * (Scale \div 100))

\* C29: a vocabulary word counts wherever it is a substring of the lowercased
\* rendering, so a word that holds a shorter vocabulary word brings both
\* deltas: "uncertain" -0.15 + 0.12 ("certain"), "unsure" -0.15 + 0.12
\* ("sure"), "unclear" -0.15 + 0.10 ("clear"), "certainly" +0.15 + 0.12
\* ("certain"); a text that is just "uncertain" scores default - 0.03.
C29_OverlappingWords ==
  IsKeywordCall
    => /\ ScoredAs(<<"u","n","c","e","r","t","a","i","n">>, -3)
       /\ ScoredAs(<<"u","n","s","u","r","e">>, -3)
       /\ ScoredAs(<<"u","n","c","l","e","a","r">>, -5)
       /\ ScoredAs(<<"c","e","r","t","a","i","n","l","y">>, 27)

\* default 0.5 and {"text": "uncertain"}: extract_from_keywords has returned
\* 0.47, not 0.35
C29_Witness ==
  /\ IsKeywordCall
  /\ config.default_confidence = Scale \div 2
  /\ call.arg = TextOnly(<<"u","n","c","e","r","t","a","i","n">>)
  /\ call.ret = 47 * (Scale \div 100)

----------------------------------------------------------------------------
(* extract on a result without a signal *)

HasPriorityField(obj) ==
  \E k \in 1..Len(PriorityOrder) : HasKey(obj, PriorityOrder[k])

\* no priority field at the top level or under metadata, no text pattern
\* that matches, no vocabulary word and no hedging pattern
NoUsableSignal(result) ==
  /\ result.kind = "object"
       => /\ ~HasPriorityField(result)
          /\ HasMetadataObject(result)
               => ~HasPriorityField(Get(result, MetadataKey))
  /\ MatchingPatterns(to_string(result)) = {}
  /\ PresentWords(LowerText(result)) = {}
  /\ MatchingHedges(LowerText(result)) = {}

\* C14, as stated: on a result without a usable signal extract returns
\* exactly default_confidence, under every strategy and for every
\* default_confidence in [0,1].
C14_DefaultWithoutSignal ==
  (IsExtractCall /\ NoUsableSignal(call.arg))
    => call.ret = config.default_confidence

\* C14, amended: on a result without a usable signal extract returns
\* default_confidence under the structured strategy, default_confidence
\* clamped to [0.10, 0.95] under the keyword strategy, and
\* 0.7 * default_confidence + 0.3 * the clamped default under the hybrid one.
C14_ClampedDefaultWithoutSignal ==
  (IsExtractCall /\ NoUsableSignal(call.arg))
    => /\ config.strategy = "Llm" => call.ret = config.default_confidence
       /\ config.strategy = "Keywords"
            => call.ret = Clamped(config.default_confidence)
       /\ config.strategy = "Hybrid"
            => 10 * call.ret = 7 * config.default_confidence
                               + 3 * Clamped(config.default_confidence)

\* the keyword strategy, default 0 and a result without a usable signal:
\* extract has returned 0.1
C14_Witness ==
  /\ IsExtractCall
  /\ NoUsableSignal(call.arg)
  /\ config.strategy = "Keywords"
  /\ config.default_confidence = 0
  /\ call.ret = Scale \div 10

----------------------------------------------------------------------------
(* ConfidenceAggregator.  Its f64 values are exact rationals [n, d], d > 0,  *)
(* in lowest terms; what an f64 division by zero yields (NaN, an infinity)  *)
(* is NotANumber.                                                            *)

Abs(x) == IF x < 0 THEN -x ELSE x

RECURSIVE Gcd(_, _)
Gcd(a, b) == IF b = 0 THEN a ELSE Gcd(b, a % b)

\* n / d in lowest terms with a positive denominator, d # 0
Rat(n, d) ==
  LET g == Gcd(Abs(n), Abs(d))
      sn == IF d < 0 THEN -n ELSE n
  IN  [n |-> sn \div g, d |-> Abs(d) \div g]

RatInt(k) == [n |-> k, d |-> 1]
RatAdd(a, b) == Rat(a.n * b.d + b.n * a.d, a.d * b.d)
RatSub(a, b) == Rat(a.n * b.d - b.n * a.d, a.d * b.d)
RatMul(a, b) == Rat(a.n * b.n, a.d * b.d)
\* NaN or an infinity
NotANumber == [n |-> 0, d |-> 0]
\* f64 division: by zero it yields NaN or an infinity, and so does a division
\* of or by one of these
RatDiv(a, b) ==
  IF a.d = 0 \/ b.d = 0 \/ b.n = 0 THEN NotANumber
  ELSE Rat(a.n * b.d, a.d * b.n)
RatLe(a, b) == a.n * b.d <= b.n * a.d
RatLt(a, b) == a.n * b.d < b.n * a.d
\* f64::min and f64::max on numbers
RatMin(a, b) == IF RatLe(a, b) THEN a ELSE b
RatMax(a, b) == IF RatLe(a, b) THEN b ELSE a

\* iter().sum::<f64>() of the elements k.. of xs
RECURSIVE SumFrom(_, _)
SumFrom(xs, k) ==
  IF k > Len(xs) THEN RatInt(0) ELSE RatAdd(xs[k], SumFrom(xs, k + 1))

\* confidences.iter().cloned().fold(f64::INFINITY, f64::min), xs not empty
RECURSIVE FoldMin(_, _)
FoldMin(xs, k) ==
  IF k = Len(xs) THEN xs[k] ELSE RatMin(xs[k], FoldMin(xs, k + 1))

\* a mutant of FoldMax: the last element, whatever the others
FoldMax_last(xs, k) == xs[Len(xs)]

\* confidences.iter().cloned().fold(f64::NEG_INFINITY, f64::max), xs not empty
RECURSIVE FoldMax(_, _)
FoldMax(xs, k) ==
  IF k = Len(xs) THEN xs[k] ELSE RatMax(xs[k], FoldMax(xs, k + 1))

\* confidences.iter().sum::<f64>() / confidences.len() as f64
Mean(xs) == RatDiv(SumFrom(xs, 1), RatInt(Len(xs)))

\* a mutant of WeightedAvg: the supplied weights are used without the test
\* total_weight > 0.0
WeightedAvg_unchecked_total(confidences, weights) ==
  IF weights.some /\ Len(weights.val) = Len(confidences)
    THEN RatDiv(SumFrom([i \in 1..Len(confidences) |->
                           RatMul(confidences[i], weights.val[i])], 1),
                SumFrom(weights.val, 1))
    ELSE RatDiv(SumFrom([i \in 1..Len(confidences) |->
                           RatMul(confidences[i], RatInt(i))], 1),
                RatInt((Len(confidences) * (Len(confidences) + 1)) \div 2))

\* a mutant of WeightedAvg: supplied weights are used whatever their number,
\* paired with the confidences as far as both go
WeightedAvg_any_length(confidences, weights) ==
  IF weights.some /\ RatLt(RatInt(0), SumFrom(weights.val, 1))
    THEN RatDiv(SumFrom([i \in 1..Min2(Len(confidences), Len(weights.val)) |->
                           RatMul(confidences[i], weights.val[i])], 1),
                SumFrom(weights.val, 1))
    ELSE RatDiv(SumFrom([i \in 1..Len(confidences) |->
                           RatMul(confidences[i], RatInt(i))], 1),
                RatInt((Len(confidences) * (Len(confidences) + 1)) \div 2))

\* the "weighted_avg" arm of combine
WeightedAvg(confidences, weights) ==
  LET n == Len(confidences)
      supplied == /\ weights.some
                  /\ Len(weights.val) = n
                  /\ RatLt(RatInt(0), SumFrom(weights.val, 1))
      ramp_sum == SumFrom([i \in 1..n |-> RatMul(confidences[i], RatInt(i))], 1)
      ramp_total == RatInt((n * (n + 1)) \div 2)
  IN  IF supplied
        THEN RatDiv(SumFrom([i \in 1..n |-> RatMul(confidences[i], weights.val[i])], 1),
                    SumFrom(weights.val, 1))
        ELSE RatDiv(ramp_sum, ramp_total)

\* a mutant of Consensus: the variance is not doubled
Consensus_single_variance(confidences) ==
  RatMul(Mean(confidences),
         RatSub(RatInt(1),
                RatMin(RatDiv(SumFrom([i \in 1..Len(confidences) |->
                                RatMul(RatSub(confidences[i], Mean(confidences)),
                                       RatSub(confidences[i], Mean(confidences)))], 1),
                              RatInt(Len(confidences))),
                       Rat(1, 2))))

\* the "consensus" arm of combine
Consensus(confidences) ==
  LET n == Len(confidences)
      mean == Mean(confidences)
      variance ==
        RatDiv(SumFrom([i \in 1..n |->
                          RatMul(RatSub(confidences[i], mean),
                                 RatSub(confidences[i], mean))], 1),
               RatInt(n))
      consensus_factor ==
        RatSub(RatInt(1), RatMin(RatMul(variance, RatInt(2)), Rat(1, 2)))
  IN  RatMul(mean, consensus_factor)

\* a mutant of combine: an empty sequence gives 0
combine_empty_is_zero(confidences, strategy, weights) ==
  IF confidences = <<>> THEN RatInt(0)
  ELSE CASE strategy = "min" -> FoldMin(confidences, 1)
         [] strategy = "max" -> FoldMax(confidences, 1)
         [] strategy = "avg" -> Mean(confidences)
         [] strategy = "weighted_avg" -> WeightedAvg(confidences, weights)
         [] strategy = "consensus" -> Consensus(confidences)
         [] OTHER -> Mean(confidences)

\* pub fn combine(confidences: &[f64], strategy: &str, weights: Option<&[f64]>) -> f64
combine(confidences, strategy, weights) ==
  IF confidences = <<>> THEN Rat(1, 2)
  ELSE CASE strategy = "min" -> FoldMin(confidences, 1)
         [] strategy = "max" -> FoldMax(confidences, 1)
         [] strategy = "avg" -> Mean(confidences)
         [] strategy = "weighted_avg" -> WeightedAvg(confidences, weights)
         [] strategy = "consensus" -> Consensus(confidences)
         [] OTHER -> Mean(confidences)

\* a mutant of UniqueCount: a result is counted whenever it differs from the
\* one before it
UniqueCount_runs(results) ==
  Cardinality({i \in 1..Len(results) :
                 i = 1 \/ to_string(results[i]) # to_string(results[i - 1])})

\* the number of distinct serde_json::to_string texts among results
UniqueCount(results) ==
  Cardinality({to_string(results[i]) : i \in 1..Len(results)})

\* a mutant of ConsistencyScore: the share is taken of len, not of len - 1
ConsistencyScore_over_len(unique_count, len) ==
  RatAdd(Rat(1, 2),
         RatMul(RatSub(RatInt(1),
                       RatDiv(RatInt(unique_count - 1), RatInt(len))),
                Rat(45, 100)))

\* 0.5 + consistency * 0.45, consistency being
\* 1.0 - (unique_count - 1) as f64 / (results.len() - 1) as f64
ConsistencyScore(unique_count, len) ==
  RatAdd(Rat(1, 2),
         RatMul(RatSub(RatInt(1),
                       RatDiv(RatInt(unique_count - 1), RatInt(len - 1))),
                Rat(45, 100)))

\* a mutant of from_consistency: the score is not raised by 0.5
from_consistency_without_floor(results) ==
  IF Len(results) < 2 THEN Rat(1, 2)
  ELSE IF UniqueCount(results) = 1 THEN Rat(95, 100)
  ELSE RatSub(ConsistencyScore(UniqueCount(results), Len(results)), Rat(1, 2))

\* pub fn from_consistency(results: &[Value]) -> f64
from_consistency(results) ==
  IF Len(results) < 2 THEN Rat(1, 2)
  ELSE IF UniqueCount(results) = 1 THEN Rat(95, 100)
  ELSE ConsistencyScore(UniqueCount(results), Len(results))

\* a mutant of calibrate: the bias is added
calibrate_adding_bias(raw_confidence, bias, scale) ==
  RatMin(RatMax(RatAdd(RatAdd(RatMul(RatSub(raw_confidence, Rat(1, 2)), scale),
                              Rat(1, 2)),
                       bias),
                RatInt(0)),
         RatInt(1))

\* pub fn calibrate(raw_confidence: f64, bias: f64, scale: f64) -> f64
calibrate(raw_confidence, bias, scale) ==
  RatMin(RatMax(RatSub(RatAdd(RatMul(RatSub(raw_confidence, Rat(1, 2)), scale),
                              Rat(1, 2)),
                       bias),
                RatInt(0)),
         RatInt(1))

----------------------------------------------------------------------------
(* Inputs of combine *)

\* the longest sequence of confidences, and of weights
MaxLen == 2

\* confidences: 0, 0.2, 0.9, 1
ConfidenceValues == {Rat(0, 1), Rat(1, 5), Rat(9, 10), Rat(1, 1)}

\* weights: -1, 0, 0.5, 2
WeightValues == {Rat(-1, 1), Rat(0, 1), Rat(1, 2), Rat(2, 1)}

\* the five strategy labels and one that is none of them
StrategyLabels == {"min", "max", "avg", "weighted_avg", "consensus", "median"}

SeqsUpTo(values, n) == UNION {[1..k -> values] : k \in 0..n}

\* the aggregator has no state; the extractor beside it is the default one
InitAggregator ==
  /\ config = [default_confidence |-> Scale \div 2, strategy |-> "Hybrid"]
  /\ call = NoCall
  /\ AtRest

\* a call of ConfidenceAggregator::combine
Combine ==
  \E confidences \in SeqsUpTo(ConfidenceValues, MaxLen),
     strategy \in StrategyLabels,
     weights \in {None} \cup {Some(w) : w \in SeqsUpTo(WeightValues, MaxLen)} :
    /\ call.op = "none"
    /\ call' = [op |-> "combine",
                arg |-> [confidences |-> confidences, strategy |-> strategy,
                         weights |-> weights],
                ret |-> combine(confidences, strategy, weights)]
    /\ UNCHANGED <<config, callers, grpc, lease>>

NextAggregator == Combine \/ Return

SpecAggregator == InitAggregator /\ [][NextAggregator]_vars

----------------------------------------------------------------------------
(* Properties of combine *)

\* C2: for confidences in [0,1], whatever the strategy label and the weights
\* (negative and zero weights included), combine returns a value in [0,1].
C2_CombineInUnitRange ==
  call.op = "combine"
    => /\ RatLe(RatInt(0), call.ret)
       /\ RatLe(call.ret, RatInt(1))

\* C19: combine on an empty sequence of confidences returns 0.5, for every
\* strategy label, known or not, and with or without weights.
C19_EmptyIsHalf ==
  (call.op = "combine" /\ call.arg.confidences = <<>>)
    => call.ret = Rat(1, 2)

\* combine has returned 0.5 on an empty sequence under the label
\* "weighted_avg" with weights supplied
C19_Witness ==
  /\ call.op = "combine"
  /\ call.arg.confidences = <<>>
  /\ call.arg.strategy = "weighted_avg"
  /\ call.arg.weights.some
  /\ call.arg.weights.val # <<>>
  /\ call.ret = Rat(1, 2)

\* the elements of a sequence
Elements(xs) == {xs[i] : i \in 1..Len(xs)}

\* v is the arithmetic mean of xs: v * len = the sum
IsMeanOf(v, xs) == RatMul(v, RatInt(Len(xs))) = SumFrom(xs, 1)

\* C20: on a non-empty sequence combine returns the smallest element under
\* "min", the largest under "max", the arithmetic mean under "avg" and under
\* every label that is none of the five; the weights have no effect on these.
C20_MinMaxAvg ==
  (call.op = "combine" /\ call.arg.confidences # <<>>)
    => /\ call.arg.strategy = "min"
            => /\ call.ret \in Elements(call.arg.confidences)
               /\ \A c \in Elements(call.arg.confidences) : RatLe(call.ret, c)
       /\ call.arg.strategy = "max"
            => /\ call.ret \in Elements(call.arg.confidences)
               /\ \A c \in Elements(call.arg.confidences) : RatLe(c, call.ret)
       /\ call.arg.strategy
            \notin {"min", "max", "weighted_avg", "consensus"}
            => IsMeanOf(call.ret, call.arg.confidences)

\* combine([0.2, 0.9], "median", Some([2, -1])) has returned 0.55, the mean
C20_Witness ==
  /\ call.op = "combine"
  /\ call.arg.confidences = <<Rat(1, 5), Rat(9, 10)>>
  /\ call.arg.strategy = "median"
  /\ call.arg.weights = Some(<<Rat(2, 1), Rat(-1, 1)>>)
  /\ call.ret = Rat(11, 20)

IsWeightedCall ==
  /\ call.op = "combine"
  /\ call.arg.strategy = "weighted_avg"
  /\ call.arg.confidences # <<>>

\* the sum of xs[i] * ws[i] over the positions of xs
RECURSIVE DotFrom(_, _, _)
DotFrom(xs, ws, k) ==
  IF k > Len(xs) THEN RatInt(0)
  ELSE RatAdd(RatMul(xs[k], ws[k]), DotFrom(xs, ws, k + 1))

\* the sum of the elements of ws
RECURSIVE Total(_)
Total(ws) == IF ws = <<>> THEN RatInt(0) ELSE RatAdd(Head(ws), Total(Tail(ws)))

\* the weights 1, 2, ..., n
Ramp(n) == [i \in 1..n |-> RatInt(i)]

\* weights are supplied, as many as the confidences, with a positive total
WeightsUsable(confidences, weights) ==
  /\ weights.some
  /\ Len(weights.val) = Len(confidences)
  /\ RatLt(RatInt(0), Total(weights.val))

\* C21: under "weighted_avg", combine returns sum(c_i * w_i) / sum(w_i) when
\* weights are supplied, are as many as the confidences and have a positive
\* total; in every other case (no weights, another number of weights, a total
\* that is not positive) it returns sum(c_i * i) / (1 + ... + n).
C21_WeightedAvg ==
  IsWeightedCall
    => IF WeightsUsable(call.arg.confidences, call.arg.weights)
         THEN RatMul(call.ret, Total(call.arg.weights.val))
                = DotFrom(call.arg.confidences, call.arg.weights.val, 1)
         ELSE RatMul(call.ret, Total(Ramp(Len(call.arg.confidences))))
                = DotFrom(call.arg.confidences, Ramp(Len(call.arg.confidences)), 1)

\* combine([0.2, 0.9], "weighted_avg", Some([2])) has returned
\* (0.2 * 1 + 0.9 * 2) / 3 = 2/3: one weight for two confidences
C21_Witness ==
  /\ IsWeightedCall
  /\ call.arg.confidences = <<Rat(1, 5), Rat(9, 10)>>
  /\ call.arg.weights = Some(<<Rat(2, 1)>>)
  /\ call.ret = Rat(2, 3)

\* combine([0.2, 0.9], "weighted_avg", Some([0.5, 2])) has returned
\* (0.1 + 1.8) / 2.5 = 0.76: the supplied weights are used
C21_SuppliedWitness ==
  /\ IsWeightedCall
  /\ call.arg.confidences = <<Rat(1, 5), Rat(9, 10)>>
  /\ call.arg.weights = Some(<<Rat(1, 2), Rat(2, 1)>>)
  /\ call.ret = Rat(19, 25)

IsConsensusCall ==
  /\ call.op = "combine"
  /\ call.arg.strategy = "consensus"
  /\ call.arg.confidences # <<>>

\* the arithmetic mean of xs
MeanOf(xs) == RatDiv(Total(xs), RatInt(Len(xs)))

\* the population variance of xs: the mean of the squares less the square of
\* the mean
PopulationVariance(xs) ==
  RatSub(RatDiv(DotFrom(xs, xs, 1), RatInt(Len(xs))),
         RatMul(MeanOf(xs), MeanOf(xs)))

\* min(2 * populationVariance, 0.5)
Penalty(xs) ==
  IF RatLe(RatMul(RatInt(2), PopulationVariance(xs)), Rat(1, 2))
  THEN RatMul(RatInt(2), PopulationVariance(xs)) ELSE Rat(1, 2)

AllEqual(xs) == \A i, j \in 1..Len(xs) : xs[i] = xs[j]

C22_AgreementWitness ==
  /\ IsConsensusCall
  /\ call.arg.confidences = <<Rat(9, 10), Rat(9, 10)>>
  /\ call.ret = Rat(9, 10)

----------------------------------------------------------------------------
(* from_consistency and calibrate, and every operation that is to be total *)

\* the longest sequence of results given to from_consistency
MaxResults == 3

\* a call of ConfidenceAggregator::from_consistency, on results 0.9, "yes"
\* and null
FromConsistency ==
  \E results \in SeqsUpTo({JNum(9 * (Scale \div 10)), JStr(<<"y","e","s">>), JNull},
                          MaxResults) :
    /\ call.op = "none"
    /\ call' = [op |-> "from_consistency", arg |-> results,
                ret |-> from_consistency(results)]
    /\ UNCHANGED <<config, callers, grpc, lease>>

\* a call of ConfidenceAggregator::calibrate: raw confidences in [0,1] and
\* -0.5 and 1.5 outside it
Calibrate ==
  \E raw_confidence \in ConfidenceValues \cup {Rat(4, 5), Rat(-1, 2), Rat(3, 2)},
     bias \in {Rat(-1, 10), RatInt(0), Rat(1, 20), Rat(1, 5), RatInt(2)},
     scale \in {RatInt(-1), RatInt(0), Rat(1, 2), RatInt(1), RatInt(2)} :
    /\ call.op = "none"
    /\ call' = [op |-> "calibrate",
                arg |-> [raw_confidence |-> raw_confidence, bias |-> bias,
                         scale |-> scale],
                ret |-> calibrate(raw_confidence, bias, scale)]
    /\ UNCHANGED <<config, callers, grpc, lease>>

\* an extractor with the default default_confidence and any strategy
InitTotal ==
  /\ config \in {c \in Configs : c.default_confidence = Scale \div 2}
  /\ call = NoCall
  /\ AtRest

NextTotal == Extract \/ Combine \/ FromConsistency \/ Calibrate \/ Return

SpecTotal == InitTotal /\ [][NextTotal]_vars

\* a number: neither NaN nor an infinity
IsNumber(x) == x.d > 0

\* C15: extract, combine, from_consistency and calibrate are total: on every
\* input, the degenerate ones included, the call returns a number.
C15_Total ==
  /\ call.op = "extract" => call.ret \in Int
  /\ call.op \in {"combine", "from_consistency", "calibrate"}
       => IsNumber(call.ret)

\* combine has returned a number under "weighted_avg" with weights of the
\* right length whose sum is zero
C15_Witness ==
  /\ call.op = "combine"
  /\ call.arg.confidences # <<>>
  /\ call.arg.strategy = "weighted_avg"
  /\ call.arg.weights.some
  /\ Len(call.arg.weights.val) = Len(call.arg.confidences)
  /\ SumFrom(call.arg.weights.val, 1) = RatInt(0)
  /\ IsNumber(call.ret)

IsConsistencyCall == call.op = "from_consistency"

\* the number of distinct results: two results have the same canonical form
\* exactly when they are the same JSON value
DistinctForms(results) == Cardinality({results[i] : i \in 1..Len(results)})

\* C23: from_consistency returns 0.5 for fewer than 2 results, 0.95 when all
\* n >= 2 results have one canonical form, and otherwise
\* 0.5 + 0.45 * (1 - (uniqueCount - 1) / (n - 1)).
C23_ConsistencyFormula ==
  IsConsistencyCall
    => call.ret =
         IF Len(call.arg) < 2 THEN Rat(1, 2)
         ELSE IF DistinctForms(call.arg) = 1 THEN Rat(95, 100)
         ELSE Rat(50 * (Len(call.arg) - 1)
                    + 45 * (Len(call.arg) - DistinctForms(call.arg)),
                  100 * (Len(call.arg) - 1))

\* from_consistency([0.9, 0.9, "yes"]) has returned 0.725: two forms among
\* three results
C23_Witness ==
  /\ IsConsistencyCall
  /\ Len(call.arg) = 3
  /\ call.arg[1] = call.arg[2]
  /\ call.arg[3] # call.arg[1]
  /\ call.ret = Rat(725, 1000)

\* n >= 2 results that do not all share one canonical form
Disagreeing(results) == Len(results) >= 2 /\ DistinctForms(results) > 1

\* C24, as stated: for n >= 2 results that do not all share one canonical
\* form, from_consistency returns a value strictly greater than 0.5 and at
\* most 0.95, also when all n results are pairwise distinct.
C24_AboveHalf ==
  (IsConsistencyCall /\ Disagreeing(call.arg))
    => /\ RatLt(Rat(1, 2), call.ret)
       /\ RatLe(call.ret, Rat(95, 100))

\* C24, amended: for n >= 2 results that do not all share one canonical
\* form, from_consistency returns a value of at least 0.5 and strictly less
\* than 0.95; it is 0.5 exactly when all n results are pairwise distinct.
C24_HalfToBelowTop ==
  (IsConsistencyCall /\ Disagreeing(call.arg))
    => /\ RatLe(Rat(1, 2), call.ret)
       /\ RatLt(call.ret, Rat(95, 100))
       /\ call.ret = Rat(1, 2) <=> DistinctForms(call.arg) = Len(call.arg)

\* from_consistency has returned 0.5 on three pairwise distinct results
C24_Witness ==
  /\ IsConsistencyCall
  /\ Len(call.arg) = 3
  /\ DistinctForms(call.arg) = 3
  /\ call.ret = Rat(1, 2)

IsCalibrateCall == call.op = "calibrate"

\* raw * scale + 0.5 - (0.5 * scale + bias), which is
\* (raw - 0.5) * scale + 0.5 - bias
Remapped(raw, bias, scale) ==
  RatSub(RatAdd(RatMul(raw, scale), Rat(1, 2)),
         RatAdd(RatMul(Rat(1, 2), scale), bias))

InUnitRange(x) == RatLe(RatInt(0), x) /\ RatLe(x, RatInt(1))

\* C25: calibrate(raw, bias, scale) returns (raw - 0.5) * scale + 0.5 - bias
\* clamped to [0,1], for every raw, bias and scale; so the result is always in
\* [0,1], and calibrate(raw, 0, 1) = raw for raw in [0,1].
C25_Calibrate ==
  IsCalibrateCall
    => /\ call.ret =
            IF RatLt(Remapped(call.arg.raw_confidence, call.arg.bias, call.arg.scale),
                     RatInt(0)) THEN RatInt(0)
            ELSE IF RatLt(RatInt(1),
                          Remapped(call.arg.raw_confidence, call.arg.bias,
                                   call.arg.scale)) THEN RatInt(1)
            ELSE Remapped(call.arg.raw_confidence, call.arg.bias, call.arg.scale)
       /\ InUnitRange(call.ret)
       /\ (/\ call.arg.bias = RatInt(0)
           /\ call.arg.scale = RatInt(1)
           /\ InUnitRange(call.arg.raw_confidence))
            => call.ret = call.arg.raw_confidence

\* calibrate(0.8, 0.05, 1.0) has returned 0.75
C25_Witness ==
  /\ IsCalibrateCall
  /\ call.arg.raw_confidence = Rat(4, 5)
  /\ call.arg.bias = Rat(1, 20)
  /\ call.arg.scale = RatInt(1)
  /\ call.ret = Rat(3, 4)

\* calibrate(1.5, -0.1, 2) has returned 1: 2.6 clamped
C25_ClampWitness ==
  /\ IsCalibrateCall
  /\ call.arg.raw_confidence = Rat(3, 2)
  /\ call.arg.bias = Rat(-1, 10)
  /\ call.arg.scale = RatInt(2)
  /\ call.ret = RatInt(1)

\* the permutations of a sequence: every order of its elements
Reorderings(xs) ==
  {[i \in 1..Len(xs) |-> xs[f[i]]] :
     f \in {g \in [1..Len(xs) -> 1..Len(xs)] :
              \A i, j \in 1..Len(xs) : g[i] = g[j] => i = j}}

\* C30: combine under "min", "max", "avg", "consensus" or a label that is
\* none of the five returns the same value on every permutation of the
\* confidences, and from_consistency the same value on every permutation of
\* the results; only "weighted_avg" depends on the order.
C30_OrderInsensitive ==
  /\ (call.op = "combine" /\ call.arg.strategy # "weighted_avg")
       => \A p \in Reorderings(call.arg.confidences) :
            combine(p, call.arg.strategy, call.arg.weights) = call.ret
  /\ IsConsistencyCall
       => \A p \in Reorderings(call.arg) : from_consistency(p) = call.ret

\* from_consistency([0.9, "yes", 0.9]) has returned 0.725, as it does on
\* [0.9, 0.9, "yes"]
C30_Witness ==
  /\ IsConsistencyCall
  /\ Len(call.arg) = 3
  /\ call.arg[1] = call.arg[3]
  /\ call.arg[1] # call.arg[2]
  /\ call.ret = from_consistency(<<call.arg[1], call.arg[3], call.arg[2]>>)
  /\ call.ret = Rat(725, 1000)

\* combine([0.2, 0.9], "consensus") has returned what it returns on [0.9, 0.2]
C30_CombineWitness ==
  /\ IsConsensusCall
  /\ call.arg.confidences = <<Rat(1, 5), Rat(9, 10)>>
  /\ call.ret = combine(<<Rat(9, 10), Rat(1, 5)>>, "consensus", call.arg.weights)

\* combine([0.2, 0.9], "weighted_avg") has returned 2/3 with the default
\* ramp, and [0.9, 0.2] gives 13/30: the order shows
C30_WeightedWitness ==
  /\ IsWeightedCall
  /\ call.arg.confidences = <<Rat(1, 5), Rat(9, 10)>>
  /\ call.arg.weights = None
  /\ call.ret = Rat(2, 3)
  /\ combine(<<Rat(9, 10), Rat(1, 5)>>, "weighted_avg", None) = Rat(13, 30)

----------------------------------------------------------------------------
(* with_confidence and require_confidence!.  The wrapped function is an     *)
(* input: what its future resolves to, a Result.  An error is its message.  *)
(* The confidences of the handlers given to require_confidence! are numbers *)
(* with at most three decimals, none of them halfway between two hundredths. *)

\* Result<T, Box<dyn Error>>
Ok(v) == [ok |-> TRUE, val |-> v]
Err(e) == [ok |-> FALSE, val |-> e]

\* a mutant of ConfidenceConfig_default: the keyword strategy is the default
ConfidenceConfig_default_keywords ==
  [default_confidence |-> Scale \div 2, strategy |-> "Keywords"]

\* impl Default for ConfidenceConfig
ConfidenceConfig_default ==
  [default_confidence |-> Scale \div 2, strategy |-> "Hybrid"]

\* AgentResult { value, confidence, reasoning, uncertainties, metadata }
AgentResult(value, confidence, reasoning, uncertainties, metadata) ==
  [value |-> value, confidence |-> confidence, reasoning |-> reasoning,
   uncertainties |-> uncertainties, metadata |-> metadata]

\* a mutant of with_confidence: a failure of the wrapped function is scored
\* as a null result
with_confidence_scoring_failures(cfg, outcome) ==
  [result |-> Ok(AgentResult(IF outcome.ok THEN outcome.val ELSE JNull,
                             extract(unwrap_or(cfg, ConfidenceConfig_default),
                                     IF outcome.ok THEN outcome.val ELSE JNull),
                             None, <<>>, <<>>)),
   extract_calls |-> 1]

\* the function with_confidence(analyze_fn, cfg) returns, called when
\* analyze_fn resolves to outcome: its result, and how many times it has
\* called extractor.extract
with_confidence(cfg, outcome) ==
  IF outcome.ok
    THEN [result |-> Ok(AgentResult(outcome.val,
                                    extract(unwrap_or(cfg, ConfidenceConfig_default),
                                            outcome.val),
                                    None, <<>>, <<>>)),
          extract_calls |-> 1]
    ELSE [result |-> outcome, extract_calls |-> 0]

\* format!("{:.2}", x) of a number x >= 0: rounded to two decimals
TwoDecimals(x) ==
  LET h == (x + Scale \div 200) \div (Scale \div 100)
  IN  NatToChars(h \div 100) \o <<".", DigitChar((h \div 10) % 10), DigitChar(h % 10)>>

\* a mutant of require_confidence: a confidence equal to the minimum fails
require_confidence_above(min_confidence, outcome) ==
  IF outcome.ok /\ outcome.val.confidence <= min_confidence
    THEN Err(<<"C","o","n","f","i","d","e","n","c","e"," ">> \o TwoDecimals(outcome.val.confidence)
             \o <<" ","b","e","l","o","w"," ","r","e","q","u","i","r","e","d"," ","t","h","r","e","s","h","o","l","d"," ">>
             \o TwoDecimals(min_confidence))
    ELSE outcome

\* the handler require_confidence!(min_confidence, analyze_fn) makes, called
\* when analyze_fn resolves to outcome
require_confidence(min_confidence, outcome) ==
  IF outcome.ok /\ outcome.val.confidence < min_confidence
    THEN Err(<<"C","o","n","f","i","d","e","n","c","e"," ">> \o TwoDecimals(outcome.val.confidence)
             \o <<" ","b","e","l","o","w"," ","r","e","q","u","i","r","e","d"," ","t","h","r","e","s","h","o","l","d"," ">>
             \o TwoDecimals(min_confidence))
    ELSE outcome

\* a call of the function with_confidence returns: with or without a
\* configuration, and the wrapped function succeeding or failing
WithConfidence ==
  \E cfg \in {None} \cup {Some(c) : c \in Configs},
     outcome \in {Ok(r) : r \in ScalarResults
                             \cup {ObjectOf(f) : f \in FieldMaps(1, FieldValues)}
                             \cup {JStr(t) : t \in TextsUpTo(1)}
                             \cup {ObjectOf(s_text :> JStr(t)) : t \in KeywordTextsUpTo(1)}}
                 \cup {Err(<<"t","i","m","e","o","u","t">>), Err(<<"n","o"," ","d","a","t","a">>)} :
    /\ call.op = "none"
    /\ call' = [op |-> "with_confidence",
                arg |-> [config |-> cfg, outcome |-> outcome],
                ret |-> with_confidence(cfg, outcome)]
    /\ UNCHANGED <<config, callers, grpc, lease>>

\* a call of the handler require_confidence! makes: the minimum is 0, 0.5,
\* 0.7 or 1; the wrapped handler fails, or succeeds with a confidence of 0,
\* 0.5, 0.699, 0.7, 0.95 or 1
RequireConfidence ==
  \E min_confidence \in {0, Scale \div 2, 7 * (Scale \div 10), Scale},
     outcome \in {Ok(AgentResult(value, confidence, reasoning, <<>>, <<>>)) :
                    value \in {JNull, JStr(<<"y","e","s">>)},
                    confidence \in {0, Scale \div 2, 699 * (Scale \div 1000),
                                    7 * (Scale \div 10), 95 * (Scale \div 100), Scale},
                    reasoning \in {None, Some(<<"s","e","e","n">>)}}
                 \cup {Err(<<"t","i","m","e","o","u","t">>), Err(<<"n","o"," ","d","a","t","a">>)} :
    /\ call.op = "none"
    /\ call' = [op |-> "require_confidence",
                arg |-> [min_confidence |-> min_confidence, outcome |-> outcome],
                ret |-> require_confidence(min_confidence, outcome)]
    /\ UNCHANGED <<config, callers, grpc, lease>>

NextWrapper == WithConfidence \/ RequireConfidence \/ Return

SpecWrapper == InitAggregator /\ [][NextWrapper]_vars

----------------------------------------------------------------------------
(* Properties of with_confidence and require_confidence! *)

IsWrapperCall == call.op = "with_confidence"

\* the configuration in force: the one given, or default_confidence 0.5 and
\* the hybrid strategy when none is given
ConfigInForce(cfg) ==
  IF cfg.some THEN cfg.val
  ELSE [default_confidence |-> Scale \div 2, strategy |-> "Hybrid"]

\* C16: when the wrapped function succeeds with r, the function made by
\* with_confidence succeeds with an envelope whose value is r, whose
\* confidence is extract(r) under the configuration in force, whose reasoning
\* is absent and whose uncertainties and metadata are empty.
C16_EnvelopeOnSuccess ==
  (IsWrapperCall /\ call.arg.outcome.ok)
    => /\ call.ret.result.ok
       /\ call.ret.result.val.value = call.arg.outcome.val
       /\ call.ret.result.val.confidence
            = extract(ConfigInForce(call.arg.config), call.arg.outcome.val)
       /\ call.ret.result.val.reasoning = None
       /\ call.ret.result.val.uncertainties = <<>>
       /\ DOMAIN call.ret.result.val.metadata = {}

\* no configuration given and the wrapped function succeeding with
\* {"text": "definitely"}: the envelope holds that value and the confidence
\* 0.7 * 0.5 + 0.3 * 0.65 = 0.545
C16_Witness ==
  /\ IsWrapperCall
  /\ call.arg.config = None
  /\ call.arg.outcome = Ok(ObjectOf(s_text :> JStr(<<"d","e","f","i","n","i","t","e","l","y">>)))
  /\ call.ret.result.ok
  /\ call.ret.result.val.value = call.arg.outcome.val
  /\ call.ret.result.val.confidence = 545 * (Scale \div 1000)

\* C17: when the wrapped function fails, the function made by
\* with_confidence fails with the same failure, produces no envelope and does
\* not call extract.
C17_FailurePropagates ==
  (IsWrapperCall /\ ~call.arg.outcome.ok)
    => /\ ~call.ret.result.ok
       /\ call.ret.result.val = call.arg.outcome.val
       /\ call.ret.extract_calls = 0

\* the wrapped function has failed with "timeout" and the call has failed
\* with "timeout"
C17_Witness ==
  /\ IsWrapperCall
  /\ call.arg.outcome = Err(<<"t","i","m","e","o","u","t">>)
  /\ call.ret.result = Err(<<"t","i","m","e","o","u","t">>)

IsGuardCall == call.op = "require_confidence"

\* C18: the threshold guard returns the inner handler's result unchanged
\* exactly when its confidence is at least the minimum, fails with an error
\* that names both numbers exactly when the confidence is below the minimum,
\* and passes on the inner handler's own failure.
C18_ThresholdGuard ==
  IsGuardCall
    => /\ ~call.arg.outcome.ok => call.ret = call.arg.outcome
       /\ call.arg.outcome.ok
            => /\ call.ret.ok
                    <=> call.arg.outcome.val.confidence >= call.arg.min_confidence
               /\ call.ret.ok => call.ret.val = call.arg.outcome.val
               /\ ~call.ret.ok
                    => /\ Contains(call.ret.val,
                                   TwoDecimals(call.arg.outcome.val.confidence))
                       /\ Contains(call.ret.val,
                                   TwoDecimals(call.arg.min_confidence))

\* the inner handler's confidence equals the minimum 0.7 and its result has
\* been returned unchanged
C18_Witness ==
  /\ IsGuardCall
  /\ call.arg.outcome.ok
  /\ call.arg.min_confidence = 7 * (Scale \div 10)
  /\ call.arg.outcome.val.confidence = 7 * (Scale \div 10)
  /\ call.ret = call.arg.outcome

\* confidence 0.5 under the minimum 0.7: the call has failed with
\* "Confidence 0.50 below required threshold 0.70"
C18_ErrorText ==
  /\ IsGuardCall
  /\ call.arg.outcome.ok
  /\ call.arg.outcome.val.confidence = Scale \div 2
  /\ call.arg.min_confidence = 7 * (Scale \div 10)
  /\ ~call.ret.ok
  /\ call.ret.val = <<"C","o","n","f","i","d","e","n","c","e"," ","0",".","5","0"," ","b","e","l","o","w"," ","r","e","q","u","i","r","e","d"," ","t","h","r","e","s","h","o","l","d"," ","0",".","7","0">>

----------------------------------------------------------------------------
(* Concurrent callers.  One extractor is shared (the Arc<ConfidenceExtractor> *)
(* of with_confidence); extract takes &self and &Value, the aggregator's     *)
(* functions take their arguments only.  A call of extract under the hybrid  *)
(* strategy runs in three steps, between which other callers run: the        *)
(* structured part, the keyword part, the blend.  Each step reads            *)
(* self.config again.                                                        *)

\* the number of concurrent callers
NumCallers == 2

Callers == 1..NumCallers

\* a caller between two calls
IdleCaller ==
  [pc |-> "idle", op |-> "none", arg |-> JNull, given |-> JNull,
   llm_conf |-> 0, keyword_conf |-> 0, ret |-> 0]

\* the calls a caller makes: extract on four results, combine on two
\* arguments, from_consistency on two, calibrate on two
ConcurrentCalls ==
  {[op |-> "extract", arg |-> r] :
     r \in {JNull, ObjectOf(s_confidence :> JNum(9 * (Scale \div 10))),
            TextOnly(<<"u","n","c","e","r","t","a","i","n">>),
            ObjectOf(s_score :> JNum(6 * (Scale \div 10))
                     @@ s_text :> JStr(<<"d","e","f","i","n","i","t","e","l","y">>))}}
  \cup {[op |-> "combine", arg |-> a] :
          a \in {[confidences |-> <<Rat(1, 5), Rat(9, 10)>>, strategy |-> "consensus",
                  weights |-> None],
                 [confidences |-> <<Rat(9, 10), Rat(1, 5)>>, strategy |-> "weighted_avg",
                  weights |-> Some(<<Rat(1, 2), Rat(2, 1)>>)]}}
  \cup {[op |-> "from_consistency", arg |-> a] :
          a \in {<<JNull, JNull>>, <<JNull, JBool(TRUE), JNull>>}}
  \cup {[op |-> "calibrate", arg |-> a] :
          a \in {[raw_confidence |-> Rat(4, 5), bias |-> Rat(1, 20), scale |-> RatInt(1)],
                 [raw_confidence |-> Rat(1, 5), bias |-> RatInt(0), scale |-> RatInt(2)]}}

\* one shared extractor with the default default_confidence and any
\* strategy, and every caller idle
InitConcurrent ==
  /\ config \in {c \in Configs : c.default_confidence = Scale \div 2}
  /\ call = NoCall
  /\ callers = [c \in Callers |-> IdleCaller]
  /\ grpc = NoGrpc
  /\ lease = NoLease

\* a mutant of frame: every call keeps its locals in the first caller's frame
frame_of_first_caller(c) == 1

\* where a call keeps the locals llm_conf and keyword_conf of extract: in
\* its own frame
frame(c) == c

\* a caller enters a call; it keeps given, its own copy of what it passes
Invoke(c) ==
  \E made \in ConcurrentCalls :
    /\ callers[c].pc = "idle"
    /\ callers' = [callers EXCEPT ![c] =
                     [IdleCaller EXCEPT !.pc = "called", !.op = made.op,
                                        !.arg = made.arg, !.given = made.arg]]
    /\ UNCHANGED <<config, call, grpc, lease>>

\* extract, to the end of its first call: match self.config.strategy; the
\* structured or the keyword strategy returns that call's value, the hybrid
\* one binds llm_conf
ExtractFirstPart(c) ==
  /\ callers[c].pc = "called"
  /\ callers[c].op = "extract"
  /\ callers' =
       CASE config.strategy = "Llm" ->
              [callers EXCEPT ![c].ret = extract_from_llm(config, callers[c].arg),
                              ![c].pc = "computed"]
         [] config.strategy = "Keywords" ->
              [callers EXCEPT ![c].ret = extract_from_keywords(config, callers[c].arg),
                              ![c].pc = "computed"]
         [] config.strategy = "Hybrid" ->
              [callers EXCEPT ![frame(c)].llm_conf =
                                extract_from_llm(config, callers[c].arg),
                              ![c].pc = "llm_done"]
  /\ UNCHANGED <<config, call, grpc, lease>>

\* let keyword_conf = self.extract_from_keywords(result);
ExtractKeywordPart(c) ==
  /\ callers[c].pc = "llm_done"
  /\ callers' = [callers EXCEPT ![frame(c)].keyword_conf =
                                  extract_from_keywords(config, callers[c].arg),
                                ![c].pc = "keyword_done"]
  /\ UNCHANGED <<config, call, grpc, lease>>

\* 0.7 * llm_conf + 0.3 * keyword_conf
ExtractBlend(c) ==
  /\ callers[c].pc = "keyword_done"
  /\ callers' = [callers EXCEPT ![c].ret =
                                  (HybridLlmTenths * callers[frame(c)].llm_conf
                                   + HybridKeywordTenths * callers[frame(c)].keyword_conf)
                                  \div 10,
                                ![c].pc = "computed"]
  /\ UNCHANGED <<config, call, grpc, lease>>

\* combine, from_consistency or calibrate: a function of its arguments
AggregatorCall(c) ==
  /\ callers[c].pc = "called"
  /\ callers[c].op # "extract"
  /\ callers' =
       [callers EXCEPT
          ![c].ret =
            CASE callers[c].op = "combine" ->
                   combine(callers[c].arg.confidences, callers[c].arg.strategy,
                           callers[c].arg.weights)
              [] callers[c].op = "from_consistency" -> from_consistency(callers[c].arg)
              [] callers[c].op = "calibrate" ->
                   calibrate(callers[c].arg.raw_confidence, callers[c].arg.bias,
                             callers[c].arg.scale),
          ![c].pc = "computed"]
  /\ UNCHANGED <<config, call, grpc, lease>>

\* the caller takes the return value
CallerReturn(c) ==
  /\ callers[c].pc = "computed"
  /\ callers' = [callers EXCEPT ![c] = IdleCaller]
  /\ UNCHANGED <<config, call, grpc, lease>>

NextConcurrent ==
  \E c \in Callers :
    \/ Invoke(c)
    \/ ExtractFirstPart(c)
    \/ ExtractKeywordPart(c)
    \/ ExtractBlend(c)
    \/ AggregatorCall(c)
    \/ CallerReturn(c)

SpecConcurrent == InitConcurrent /\ [][NextConcurrent]_vars

----------------------------------------------------------------------------
(* Properties of concurrent callers *)

\* what a call returns when it runs alone
Alone(op, arg) ==
  CASE op = "extract" -> extract(config, arg)
    [] op = "combine" -> combine(arg.confidences, arg.strategy, arg.weights)
    [] op = "from_consistency" -> from_consistency(arg)
    [] op = "calibrate" -> calibrate(arg.raw_confidence, arg.bias, arg.scale)

\* every finished call holds the value it returns alone, and what it was
\* passed is as the caller gave it
FinishedAsAlone ==
  \A c \in Callers :
    callers[c].pc = "computed"
      => /\ callers[c].ret = Alone(callers[c].op, callers[c].arg)
         /\ callers[c].arg = callers[c].given

\* C26: whatever callers invoke extract (on one shared extractor), combine,
\* from_consistency and calibrate, and however their steps interleave, each
\* call returns the value it returns when run alone, and no step changes the
\* shared configuration or what a caller passed.
C26_Stateless ==
  /\ []FinishedAsAlone
  /\ [][/\ config' = config
        /\ \A c \in Callers :
             callers[c].pc # "idle" => callers'[c].pc = "idle"
                                      \/ callers'[c].given = callers[c].given]_vars

\* under the hybrid strategy, the second caller has run the structured part
\* of extract on another result while the first caller's call, begun before,
\* has finished with the value it returns alone
C26_Witness ==
  /\ config.strategy = "Hybrid"
  /\ callers[1].op = "extract"
  /\ callers[2].op = "extract"
  /\ callers[1].arg # callers[2].arg
  /\ callers[1].pc = "computed"
  /\ callers[2].pc = "llm_done"
  /\ callers[1].ret = extract(config, callers[1].arg)
  /\ callers[1].ret # extract(config, callers[2].arg)

----------------------------------------------------------------------------
(* serve_agent of grpc_agent.rs.  Three tasks: the main task, which takes    *)
(* the GrpcAgent out of its shared slot and serves it; the signal task,      *)
(* which waits for ctrl-c, then takes the agent out of the same slot and     *)
(* stops it; the lease renewal loop that serve spawns.  The slot is a        *)
(* Mutex<Option<GrpcAgent>>; the guard taken in the head of an `if let`      *)
(* lives to the end of its block.  The registry answers as it likes.  The    *)
(* transport does not fail once it is bound.                                 *)

\* the port given to serve_agent: 0 lets the system choose
RequestedPorts == {0, 50051}

\* the ports the system chooses from
EphemeralPorts == {49152, 49153}

\* serve_agent has made the agent (port 0, no lease, no shutdown sender) and
\* the slot, and has spawned the signal task
InitServe ==
  /\ config = [default_confidence |-> Scale \div 2, strategy |-> "Hybrid"]
  /\ call = NoCall
  /\ callers = NoCallers
  /\ lease = NoLease
  /\ \E p \in RequestedPorts :
       grpc = [main |-> "take", signal |-> "awaiting", renewal |-> "none",
               slot |-> "agent", slot_lock |-> "free",
               requested |-> p, port |-> 0,
               lease_id |-> None, last_renewal |-> "none",
               shutdown_tx |-> FALSE, shutdown |-> "unsent",
               registered |-> FALSE, unregister_calls |-> 0,
               last_status |-> "none"]

\* GrpcAgent::stop, on an agent whose sender is present or not: what becomes
\* of the shutdown channel
stop(shutdown_tx, shutdown) == IF shutdown_tx THEN "sent" ELSE shutdown

\* if let Some(agent) = grpc_agent_clone.lock().await.take(): the main task
\* locks the slot and takes what is in it; with the agent it goes on to
\* serve, the guard alive; with nothing it returns Ok(())
MainTake ==
  /\ grpc.main = "take"
  /\ grpc.slot_lock = "free"
  /\ grpc' = IF grpc.slot = "agent"
             THEN [grpc EXCEPT !.slot = "empty", !.slot_lock = "main", !.main = "bind"]
             ELSE [grpc EXCEPT !.main = "returned"]
  /\ UNCHANGED <<config, call, callers, lease>>

\* serve, to self.port = actual_addr.port(): the server is bound to the
\* requested port, or to one the system chooses when 0 is requested
ServeBind ==
  /\ grpc.main = "bind"
  /\ \E actual \in IF grpc.requested = 0 THEN EphemeralPorts ELSE {grpc.requested} :
       grpc' = [grpc EXCEPT !.port = actual, !.main = "register"]
  /\ UNCHANGED <<config, call, callers, lease>>

\* if let Err(e) = self.register().await: the registry grants a lease, or
\* the call fails and serve goes on
ServeRegister ==
  /\ grpc.main = "register"
  /\ \E granted \in BOOLEAN :
       grpc' = IF granted
               THEN [grpc EXCEPT !.lease_id = Some(1), !.registered = TRUE,
                                 !.main = "spawn"]
               ELSE [grpc EXCEPT !.main = "spawn"]
  /\ UNCHANGED <<config, call, callers, lease>>

\* serve spawns renew_lease_loop, makes the shutdown channel and keeps its
\* sender in self.shutdown_tx
ServeSpawn ==
  /\ grpc.main = "spawn"
  /\ grpc' = [grpc EXCEPT !.renewal = "ticking", !.shutdown_tx = TRUE,
                          !.main = "serving"]
  /\ UNCHANGED <<config, call, callers, lease>>

\* graceful.await?, polled: pending until the shutdown channel has fired;
\* then serve calls unregister, which the registry performs or fails, and
\* returns Ok(()), and serve_agent drops the guard of the slot
ServeAwait ==
  /\ grpc.main = "serving"
  /\ \E performed \in BOOLEAN :
       grpc' = IF grpc.shutdown = "sent"
               THEN [grpc EXCEPT !.registered = grpc.registered /\ ~performed,
                                 !.unregister_calls = 1,
                                 !.slot_lock = "free", !.main = "returned"]
               ELSE grpc
  /\ UNCHANGED <<config, call, callers, lease>>

\* GrpcAgentService::execute, the status it answers with: a request without
\* a task or with data that is no JSON is an invalid argument, a failure of
\* analyze an internal error
execute(has_task, data, analyzed) ==
  IF ~has_task THEN "invalid_argument"
  ELSE IF data = "malformed" THEN "invalid_argument"
  ELSE IF ~analyzed THEN "internal"
  ELSE "ok"

\* the server answers an execute request while it serves
Execute ==
  /\ grpc.main = "serving"
  /\ \E has_task \in BOOLEAN, data \in {"empty", "json", "malformed"},
        analyzed \in BOOLEAN :
       grpc' = [grpc EXCEPT !.last_status = execute(has_task, data, analyzed)]
  /\ UNCHANGED <<config, call, callers, lease>>

\* signal::ctrl_c().await completes: the process has received ctrl-c
CtrlC ==
  /\ grpc.signal = "awaiting"
  /\ grpc' = [grpc EXCEPT !.signal = "woken"]
  /\ UNCHANGED <<config, call, callers, lease>>

\* if let Some(agent) = grpc_agent_signal.lock().await.take() { agent.stop() }:
\* the signal task needs the lock of the slot; with the agent it calls stop,
\* with nothing it ends
SignalStop ==
  /\ grpc.signal = "woken"
  /\ grpc.slot_lock = "free"
  /\ grpc' = IF grpc.slot = "agent"
             THEN [grpc EXCEPT !.slot = "empty", !.signal = "done",
                               !.shutdown = stop(grpc.shutdown_tx, grpc.shutdown),
                               !.shutdown_tx = FALSE]
             ELSE [grpc EXCEPT !.signal = "done"]
  /\ UNCHANGED <<config, call, callers, lease>>

\* one round of renew_lease_loop: with a lease, the registry renews it,
\* refuses (the loop only warns) or cannot be reached; without one, nothing
RenewTick ==
  /\ grpc.renewal = "ticking"
  /\ \E answer \in {"renewed", "refused", "error"} :
       grpc' = [grpc EXCEPT !.last_renewal =
                              IF grpc.lease_id.some THEN answer ELSE "skipped"]
  /\ UNCHANGED <<config, call, callers, lease>>

NextServe ==
  \/ MainTake
  \/ ServeBind
  \/ ServeRegister
  \/ ServeSpawn
  \/ ServeAwait
  \/ Execute
  \/ CtrlC
  \/ SignalStop
  \/ RenewTick

\* the runtime runs every task that can take a step; ctrl-c comes or not
SpecServe ==
  /\ InitServe
  /\ [][NextServe]_vars
  /\ WF_vars(MainTake)
  /\ WF_vars(ServeBind)
  /\ WF_vars(ServeRegister)
  /\ WF_vars(ServeSpawn)
  /\ WF_vars(ServeAwait)
  /\ WF_vars(SignalStop)
  /\ WF_vars(RenewTick)

----------------------------------------------------------------------------
(* Properties of serve_agent *)

\* ctrl-c has been received and the agent is serving
CtrlCWhileServing == grpc.signal = "woken" /\ grpc.main = "serving"

\* the shutdown signal has reached the server, serve has returned and has
\* called unregister
ShutDown ==
  /\ grpc.shutdown = "sent"
  /\ grpc.main = "returned"
  /\ grpc.unregister_calls = 1

\* C27: once ctrl-c is received while the agent is serving, the shutdown
\* signal is eventually delivered to the server, serve returns and the agent
\* is unregistered from the control plane.
C27_CtrlCShutsDown == CtrlCWhileServing ~> ShutDown

\* while the main task serves, it holds the lock of a slot that is empty:
\* the signal task can neither enter nor find the agent
C27_SlotHeldWhileServing ==
  grpc.main \in {"bind", "register", "spawn", "serving"}
    => grpc.slot_lock = "main" /\ grpc.slot = "empty"

\* ctrl-c has been received while the agent is serving, registered, and the
\* shutdown channel has not fired
C27_Witness ==
  /\ CtrlCWhileServing
  /\ grpc.registered
  /\ grpc.shutdown = "unsent"

----------------------------------------------------------------------------
(* ParallaxAgent of parallax_agent.rs.  serve(port) spawns a task that       *)
(* registers the agent and a task that renews its lease every 30 seconds,    *)
(* then runs the server until shutdown is called.  The registry answers as   *)
(* it likes: it can be out of reach, grant a lease or answer with an empty   *)
(* lease id; it renews a lease, refuses, or fails.                           *)

\* the port given to serve
ServePorts == {0, 8080, 50051}

\* the lease ids the registry grants
LeaseIds == {"lease-1", "lease-2"}

\* serve(port) has made the shutdown channel and spawned both tasks; the
\* server runs.  No lease is "none", no endpoint sent yet is the empty text
InitLease ==
  /\ config = [default_confidence |-> Scale \div 2, strategy |-> "Hybrid"]
  /\ call = NoCall
  /\ callers = NoCallers
  /\ grpc = NoGrpc
  /\ \E p \in ServePorts :
       lease = [serve |-> "serving", port |-> p, register |-> "spawned",
                lease_id |-> "none", registered_as |-> <<>>,
                reregistered_as |-> <<>>, last_renewal |-> "none"]

\* endpoint: format!("localhost:{}", port)
endpoint(port) == <<"l","o","c","a","l","h","o","s","t",":">> \o NatToChars(port)

\* the port start_lease_renewal gives to register when it re-registers:
\* self.register(0)
reregister_port(port) == 0

\* what register leaves in self.lease_id: the id granted, or what was there
\* when the registry is out of reach ("error") or answers with an empty id
lease_after_register(lease_id, answer) ==
  IF answer \in LeaseIds THEN answer ELSE lease_id

\* what register tells the registry, if it reaches it: the endpoint
sent_endpoint(before, port, answer) ==
  IF answer = "error" THEN before ELSE endpoint(port)

\* the task serve spawns: self_clone.register(port)
RegisterTask ==
  /\ lease.register = "spawned"
  /\ \E answer \in LeaseIds \cup {"empty", "error"} :
       lease' = [lease EXCEPT
                   !.register = "done",
                   !.lease_id = lease_after_register(lease.lease_id, answer),
                   !.registered_as = sent_endpoint(lease.registered_as, lease.port, answer)]
  /\ UNCHANGED <<config, call, callers, grpc>>

\* one round of start_lease_renewal: without a lease nothing; with one,
\* renew_lease, and on Ok(false) a re-registration
RenewalRound ==
  /\ lease.serve # "unused"
  /\ \E renewal \in {"renewed", "refused", "error"},
        answer \in LeaseIds \cup {"empty", "error"} :
       lease' =
         IF lease.lease_id = "none" THEN [lease EXCEPT !.last_renewal = "skipped"]
         ELSE IF renewal # "refused" THEN [lease EXCEPT !.last_renewal = renewal]
         ELSE [lease EXCEPT
                 !.last_renewal = "refused",
                 !.lease_id = lease_after_register(lease.lease_id, answer),
                 !.reregistered_as =
                   sent_endpoint(lease.reregistered_as, reregister_port(lease.port),
                                 answer)]
  /\ UNCHANGED <<config, call, callers, grpc>>

\* shutdown(): the sender is taken and fired, and the server stops; the
\* spawned tasks go on
Shutdown ==
  /\ lease.serve = "serving"
  /\ lease' = [lease EXCEPT !.serve = "stopped"]
  /\ UNCHANGED <<config, call, callers, grpc>>

NextLease == RegisterTask \/ RenewalRound \/ Shutdown

SpecLease == InitLease /\ [][NextLease]_vars

----------------------------------------------------------------------------
(* Properties of the lease renewal *)

\* C28: when a lease renewal reports failure, the renewal loop re-registers
\* the agent with the same port: the endpoint sent in the re-registration is
\* the endpoint sent in the original registration made by serve.
C28_SameEndpoint ==
  lease.serve # "unused"
    => (lease.reregistered_as # <<>>
          => lease.reregistered_as = lease.registered_as)

\* serve(8080) has registered "localhost:8080", a renewal has been refused
\* and the loop has re-registered "localhost:0"
C28_Witness ==
  /\ lease.serve # "unused"
  /\ lease.port = 8080
  /\ lease.registered_as = <<"l","o","c","a","l","h","o","s","t",":","8","0","8","0">>
  /\ lease.last_renewal = "refused"
  /\ lease.reregistered_as = <<"l","o","c","a","l","h","o","s","t",":","0">>

\* every re-registration sends the endpoint "localhost:0", whatever port
\* serve was given
C28_ReregistersPortZero ==
  lease.serve # "unused"
    => (lease.reregistered_as # <<>>
          => lease.reregistered_as = <<"l","o","c","a","l","h","o","s","t",":","0">>)

----------------------------------------------------------------------------
(* Every operation, on any extractor *)

Next ==
  \/ NormalizeConfidence
  \/ ExtractFromKeywords
  \/ NormalizeConfidenceValue
  \/ ExtractFromLlm
  \/ Extract
  \/ Combine
  \/ FromConsistency
  \/ Calibrate
  \/ WithConfidence
  \/ RequireConfidence
  \/ Return

Spec == Init /\ [][Next]_vars

====
